---- MODULE Spec2Model ----
\* A model of the Invezgo -> BigQuery data pipeline: the batch and onetime
\* execution engines (src/src/execution_modes.py), the table sink
\* (src/src/bigquery_loader.py) and the orchestrator (src/src/pipeline.py).
\*
\* Representation.  A Python dict is a function whose domain is its key set; a
\* missing key is a key outside the domain (Get gives .get's default).  Python's
\* None is the string None.  A calendar day is a 'YYYY-MM-DD' string; DayNames
\* lists consecutive days, so strptime is the lookup of a string in DayNames and
\* strftime is the indexing of DayNames.  A column template is the sequence of
\* its pieces, a piece being a literal or a '{key}' token; an endpoint path and a
\* query parameter are written the same way.  The BigQuery table is
\* the sequence of its rows in load order.
EXTENDS Integers, Sequences, FiniteSets, TLC

\* ---------------------------------------------------------------- bounds
MaxValues == 2      \* longest static iteration value list
MaxDates == 2       \* last day a date range may start or end on

\* ---------------------------------------------------------------- values
None == "None"
EmptyDict == [k \in {} |-> None]

DayNames == <<"2024-12-01", "2024-12-02", "2024-12-03", "2024-12-04">>
ValueNames == <<"BBCA", "BBRI", "TLKM", "ASII">>

Get(d, k, default) == IF k \in DOMAIN d THEN d[k] ELSE default
Truthy(x) == x # None /\ x # ""
Range(s) == {s[j] : j \in DOMAIN s}

\* ---------------------------------------------------------------- pure helpers of BatchMode
\* Lines 288-289: the static list is used when it is there and not empty.
HasStaticValues(batch_config) ==
    "values" \in DOMAIN batch_config /\ batch_config["values"] # <<>>

HasSource(batch_config) ==
    "source_table" \in DOMAIN batch_config /\ "source_column" \in DOMAIN batch_config

\* Line 293: the source table is queried only when the static list gave
\* nothing.
UsesSource_First(batch_config) == HasSource(batch_config)

UsesSource(batch_config) == ~HasStaticValues(batch_config) /\ HasSource(batch_config)

\* The WHERE clause of the lookup.  In src/src/execution_modes.py (line 300)
\* the default clause is a plain string, so that its braces stay in the
\* query; in src/cloud_run_function/main.py (line 453) it is an f-string.
WhereClause(copy, batch_config) ==
    LET source_filter == Get(batch_config, "source_filter", "")
    IN  IF Truthy(source_filter) THEN "WHERE " \o source_filter
        ELSE IF copy = "src" THEN "WHERE {source_column} IS NOT NULL"
        ELSE "WHERE " \o batch_config["source_column"] \o " IS NOT NULL"

\* Lines 302-307: the query text, by its clauses.
BatchValuesQuery(copy, batch_config) ==
    [op |-> "query",
     select_distinct |-> batch_config["source_column"],
     from |-> batch_config["source_table"],
     where |-> WhereClause(copy, batch_config),
     order_by |-> batch_config["source_column"]]

\* The filter an endpoint may configure, and what BigQuery makes of a WHERE
\* clause: a clause with braces is a syntax error.
SourceFilter == "active = 'Y'"

ValidWhere(query) ==
    query["where"] \in {"WHERE " \o SourceFilter,
                        "WHERE " \o query["select_distinct"] \o " IS NOT NULL"}

Holds(query, row) ==
    IF query["where"] = "WHERE " \o SourceFilter
    THEN Get(row, "active", None) = "Y"
    ELSE Get(row, query["select_distinct"], None) # None

\* The query of a valid text may still fail (quota, network); the query of an
\* invalid text raises.
LookupOutcomes(query) == IF ValidWhere(query) THEN {"ok", "error"} ELSE {"error"}

\* ORDER BY ... ASC over the strings drawn here (NULL sorts first).
SortOrder == <<None, "ASII", "BBCA", "BBRI", "TLKM">>

\* SELECT DISTINCT column ... WHERE ... ORDER BY column.
QueryResult(query, rows) ==
    LET found == {Get(rows[j], query["select_distinct"], None) :
                     j \in {k \in DOMAIN rows : Holds(query, rows[k])}}
    IN  SelectSeq(SortOrder, LAMBDA v : v \in found)

\* Lines 312-319: the values of the rows, or [] when the query raised.
ValuesAfterLookup_Default(outcome, found) ==
    IF outcome = "ok" THEN found ELSE <<"BBCA">>

ValuesAfterLookup(outcome, found) == IF outcome = "ok" THEN found ELSE <<>>

_get_batch_values_Fallback(batch_config) ==
    IF "values" \in DOMAIN batch_config /\ batch_config["values"] # <<>>
    THEN batch_config["values"]
    ELSE <<ValueNames[1]>>

\* _get_batch_values without the lookup: the static list when it is
\* non-empty, and [] for a configuration that does not name a source table
\* and column.  BatchStart adds the lookup of lines 293-317.
_get_batch_values(batch_config) ==
    IF "values" \in DOMAIN batch_config /\ batch_config["values"] # <<>>
    THEN batch_config["values"]
    ELSE <<>>

\* strptime(s, '%Y-%m-%d') also reads a day written without its leading zero.
Unpadded == <<"2024-12-1", "2024-12-2", "2024-12-3", "2024-12-4">>

\* strptime: the day a string denotes, 0 when it raises ValueError.
DayIndex(s) == IF \E n \in DOMAIN DayNames : DayNames[n] = s
               THEN CHOOSE n \in DOMAIN DayNames : DayNames[n] = s
               ELSE IF \E n \in DOMAIN Unpadded : Unpadded[n] = s
               THEN CHOOSE n \in DOMAIN Unpadded : Unpadded[n] = s
               ELSE 0

_get_date_range_Exclusive(date_iteration) ==
    LET start_date_str == Get(date_iteration, "start_date", None)
        end_date_str == Get(date_iteration, "end_date", None)
    IN  IF ~Truthy(start_date_str) \/ ~Truthy(end_date_str) THEN <<>>
        ELSE IF DayIndex(start_date_str) = 0 \/ DayIndex(end_date_str) = 0 THEN <<>>
        ELSE [n \in 1..(DayIndex(end_date_str) - DayIndex(start_date_str))
                |-> DayNames[DayIndex(start_date_str) + n - 1]]

\* _get_date_range: [] when a bound is missing or does not parse, else one
\* string per day from start_date to end_date.
_get_date_range(date_iteration) ==
    LET start_date_str == Get(date_iteration, "start_date", None)
        end_date_str == Get(date_iteration, "end_date", None)
    IN  IF ~Truthy(start_date_str) \/ ~Truthy(end_date_str) THEN <<>>
        ELSE IF DayIndex(start_date_str) = 0 \/ DayIndex(end_date_str) = 0 THEN <<>>
        ELSE [n \in 1..(DayIndex(end_date_str) - DayIndex(start_date_str) + 1)
                |-> DayNames[DayIndex(start_date_str) + n - 1]]

Token(key) == "{" \o key \o "}"

RECURSIVE Concat(_)
Concat(pieces) == IF pieces = <<>> THEN "" ELSE Head(pieces) \o Concat(Tail(pieces))

\* col_value.replace('{key}', str(value)): every '{key}' piece becomes value.
ReplaceToken(pieces, key, value) ==
    [j \in DOMAIN pieces |-> IF pieces[j] = Token(key) THEN value ELSE pieces[j]]

\* for key, value in context.items(): one replace per key whose value is not
\* None, in the order of the context, which both callers build with the
\* iteration key first and 'date' last.
RECURSIVE ReplaceAll(_, _, _)
ReplaceAll(pieces, context, keys) ==
    IF keys = {} THEN pieces
    ELSE LET key == IF keys = {"date"} THEN "date"
                    ELSE CHOOSE k \in keys \ {"date"} : TRUE
         IN  ReplaceAll(IF context[key] # None
                        THEN ReplaceToken(pieces, key, context[key])
                        ELSE pieces,
                        context, keys \ {key})

Render(col_template, context) ==
    Concat(ReplaceAll(col_template, context, DOMAIN context))

_inject_columns_KeepExisting(data, inject_columns, context) ==
    IF DOMAIN inject_columns = {} THEN data
    ELSE [j \in DOMAIN data |->
            data[j]
            @@ [c \in DOMAIN inject_columns |-> Render(inject_columns[c], context)]]

\* _inject_columns: every template column is set on every record, replacing
\* a field of that name; without templates the data is returned as it is.
_inject_columns(data, inject_columns, context) ==
    IF DOMAIN inject_columns = {} THEN data
    ELSE [j \in DOMAIN data |->
            [c \in DOMAIN inject_columns |-> Render(inject_columns[c], context)]
            @@ data[j]]

_build_partition_fields_Empty(partition_key, context) == EmptyDict

_build_partition_fields_KeepNull(partition_key, context) ==
    [key \in {k \in Range(partition_key) : k \in DOMAIN context} |-> context[key]]

_build_partition_fields(partition_key, context) ==
    IF partition_key = <<>> THEN EmptyDict
    ELSE [key \in {k \in Range(partition_key) :
                     k \in DOMAIN context /\ context[k] # None}
            |-> context[key]]

\* ------------------------------------------------------------- the API client
\* A decoded JSON response: a value with its Python type.
JObject(fields) == [type |-> "dict", fields |-> fields]
JArray(items) == [type |-> "list", items |-> items]
JString(s) == [type |-> "str", text |-> s]
JNumber(n) == [type |-> "int", number |-> n]
JBool(b) == [type |-> "bool", flag |-> b]
JNull == [type |-> "NoneType"]

IsInstance(data, type) == data["type"] = type

\* str(data) of a value that is neither a dict nor a list.
DigitNames == <<"0", "1", "2", "3", "4", "5", "6", "7", "8", "9">>

Str(data) ==
    IF IsInstance(data, "str") THEN data["text"]
    ELSE IF IsInstance(data, "int") THEN DigitNames[data["number"] + 1]
    ELSE IF IsInstance(data, "bool") THEN (IF data["flag"] THEN "True" ELSE "False")
    ELSE "None"

_normalize_response_Unwrapped(data) ==
    IF IsInstance(data, "dict")
    THEN IF "data" \in DOMAIN data["fields"] THEN data["fields"]["data"]
         ELSE JArray(<<data>>)
    ELSE IF IsInstance(data, "list") THEN data
    ELSE JArray(<<JObject([raw_data |-> JString(Str(data))])>>)

\* _normalize_response: the 'data' entry of a dict (wrapped unless it is a
\* list), a dict without one wrapped, a list as it is, anything else as one
\* record that holds its text.
_normalize_response(data) ==
    IF IsInstance(data, "dict")
    THEN IF "data" \in DOMAIN data["fields"]
         THEN IF IsInstance(data["fields"]["data"], "list") THEN data["fields"]["data"]
              ELSE JArray(<<data["fields"]["data"]>>)
         ELSE JArray(<<data>>)
    ELSE IF IsInstance(data, "list") THEN data
    ELSE JArray(<<JObject([raw_data |-> JString(Str(data))])>>)

\* ---------------------------------------------------------------- the table sink
SysFields == {"_sys_ingested_at", "_sys_ingestion_date"}

_add_system_columns_KeepStale(data, now) ==
    [j \in DOMAIN data |-> ("_sys_ingested_at" :> now) @@ data[j]]

\* _add_system_columns: drop every '_sys_' field, stamp the ingestion time.
_add_system_columns(data, now) ==
    [j \in DOMAIN data |->
        ("_sys_ingested_at" :> now)
        @@ [f \in (DOMAIN data[j]) \ SysFields |-> data[j][f]]]

Matches(row, partition_fields) ==
    \A f \in DOMAIN partition_fields :
        f \in DOMAIN row /\ row[f] = partition_fields[f]

RECURSIVE SelectRows(_, _)
SelectRows(rows, partition_fields) ==
    IF rows = <<>> THEN <<>>
    ELSE IF Matches(Head(rows), partition_fields)
         THEN SelectRows(Tail(rows), partition_fields)
         ELSE <<Head(rows)>> \o SelectRows(Tail(rows), partition_fields)

_delete_partition_Noop(rows, partition_fields, delete_ok) == rows

\* _delete_partition: DELETE FROM table WHERE f = 'v' AND ...; every exception
\* of the query is caught and logged, leaving the table as it was.
_delete_partition(rows, partition_fields, delete_ok) ==
    IF delete_ok THEN SelectRows(rows, partition_fields) ELSE rows

\* How the DELETE query of _delete_partition may end: it succeeds, it raises
\* "Not found" (there is no such table yet, so there are no rows), or it
\* raises another error.
DeleteOutcomes(rows) ==
    IF rows = <<>> THEN {"ok", "Not found", "error"} ELSE {"ok", "error"}

\* _delete_partition lines 87-94: the except clause catches every exception
\* of the query; "Not found" is logged as info and any other error as a
\* warning, and neither is raised again.
DeleteRaises(delete_outcome) == FALSE

\* load_data up to the load job: the rows the table holds once the delete of
\* a WRITE_TRUNCATE_PARTITION has run and before the load job is submitted.
BeforeLoadJob(rows, write_disposition, partition_fields, delete_ok) ==
    IF write_disposition = "WRITE_TRUNCATE_PARTITION" /\ DOMAIN partition_fields # {}
    THEN _delete_partition(rows, partition_fields, delete_ok)
    ELSE rows

NormalizedDisposition(write_disposition) ==
    IF write_disposition = "WRITE_TRUNCATE_PARTITION" THEN "WRITE_APPEND"
    ELSE write_disposition

\* The load job: WRITE_TRUNCATE replaces the table, WRITE_APPEND appends.
AfterLoadJob(rows, stamped, disposition) ==
    IF disposition = "WRITE_TRUNCATE" THEN stamped ELSE rows \o stamped

\* ---------------------------------------------------------------- state
VARIABLES
    endpoint_config,   \* the argument of execute
    api,               \* the record source: what fetch_data returns per (date, value)
    sink,              \* the rows of each destination table
    clock,             \* the time _add_system_columns reads
    pc,                \* where the engine stands: batch, onetime, streaming (execute
                       \* is entered), fetch, load, raised, return, idle
    batch_values, date_list, date_idx, i,
    date_data, total_records, batches_processed,
    result,            \* what execute returned
    calls,             \* every fetch_data and load_data call issued, in order
    at_entry,          \* the sink when execute was entered
    at_raise,          \* the sink and the call count when an exception was raised
    run,               \* which invocation of execute this is
    history,           \* per finished invocation: its result, calls and final sink
    config_file,       \* the endpoints of config/endpoints.yaml
    endpoints_config,  \* the list DataPipeline.run works on
    mode_filter,       \* the mode filter of the run, or None
    ppc,               \* where the orchestrator stands: off, main, run, loop, done, exit
    ep,                \* the position of the loop over endpoints_config
    results,           \* the per-endpoint results collected so far
    summary,           \* what DataPipeline.run returned
    executed,          \* the names of the endpoints handed to run_single_endpoint
    fn,                \* the helper a direct call is made to, or None
    args,              \* the arguments of that call
    ret,               \* what the call returned, or NoReturn while it is pending
    tree               \* the copy of the engine that runs: src or cloud_run_function

pipeline == <<config_file, endpoints_config, mode_filter, ppc, ep, results, summary,
              executed>>

library == <<fn, args, ret>>

vars == <<endpoint_config, api, sink, clock, pc, batch_values, date_list, date_idx,
          i, date_data, total_records, batches_processed, result, calls, at_entry,
          at_raise, run, history, pipeline, library, tree>>

NoResult == [status |-> "none"]
NoReturn == [pending |-> TRUE]
NoRaise == [raised |-> FALSE]

\* ---------------------------------------------------------------- inputs
StaticValues(n) == [j \in 1..n |-> ValueNames[j]]

\* Strings strptime(_, '%Y-%m-%d') raises ValueError on.
Unparsable == {"2024-13-01", "tomorrow"}

DateIterations ==
    {[enabled |-> FALSE]}
    \cup {[enabled |-> TRUE, start_date |-> DayNames[a], end_date |-> DayNames[b]] :
            a \in 1..MaxDates, b \in 1..MaxDates}
    \cup {[enabled |-> TRUE, start_date |-> "2024-13-01", end_date |-> DayNames[1]],
          [enabled |-> TRUE, start_date |-> DayNames[1], end_date |-> "tomorrow"]}

PartitionKeys == {<<>>, <<"date">>, <<"stock_code">>, <<"stock_code", "date">>}

InjectColumns == {EmptyDict, [date |-> <<"{date}">>]}

BatchConfig(n, di, pk, ic) ==
    [name |-> "prices",
     path |-> <<"/stock/", "{stock_code}", "/prices">>,
     execution_mode |-> "batch",
     params |-> [from |-> <<"{date}">>, limit |-> <<"100">>],
     path_variables |-> EmptyDict,
     batch_config |-> [iterate_by |-> "stock_code",
                       values |-> StaticValues(n),
                       date_iteration |-> di],
     partition_key |-> pk,
     inject_columns |-> ic]

\* One invocation: every value list, every date range, every partition key.
BatchConfigs ==
    {BatchConfig(n, di, pk, EmptyDict) :
        n \in 0..MaxValues, di \in DateIterations, pk \in PartitionKeys}

\* An endpoint whose path has no slot for the iteration value, which goes to
\* the query; two of its parameters hold the date token.
QueryConfigs ==
    {[BatchConfig(MaxValues, di, <<"date">>, EmptyDict)
        EXCEPT !["path"] = <<"/", "{market}", "/prices">>,
               !["params"] = [from |-> <<"{date}">>, to |-> <<"d-", "{date}">>,
                              limit |-> <<"100">>],
               !["path_variables"] = [market |-> "idx"]] :
        di \in {[enabled |-> FALSE],
                [enabled |-> TRUE, start_date |-> DayNames[1],
                 end_date |-> DayNames[MaxDates]]}}

\* Two invocations: the full value list, date iteration off or over the days
\* up to MaxDates, every partition key, with and without an injected 'date'.
RerunConfigs ==
    {BatchConfig(MaxValues, di, pk, ic) :
        di \in {[enabled |-> FALSE]}
               \cup {[enabled |-> TRUE, start_date |-> DayNames[a],
                       end_date |-> DayNames[MaxDates]] : a \in 1..2},
        pk \in PartitionKeys, ic \in InjectColumns}

\* The dates and values execute iterates over for a configuration.
DatesOf(cfg) ==
    LET date_iteration == Get(cfg["batch_config"], "date_iteration", EmptyDict)
    IN  IF Get(date_iteration, "enabled", FALSE)
        THEN _get_date_range(date_iteration) ELSE <<None>>

PairsOf(cfg) ==
    {<<d, v>> : d \in Range(DatesOf(cfg)),
                v \in Range(_get_batch_values(cfg["batch_config"]))}

\* What the source answers for one (date, value): nothing, or rows that carry
\* the requested day in a 'date' field ("dated"), carry no 'date' field
\* ("bare"), or carry the day of the latest data whatever day was requested
\* ("latest").  The second value's answer has two rows.
RowShapes == {"dated", "bare", "latest"}

ApiRows(shape, d, v) ==
    LET base == IF shape = "dated" /\ d # None
                THEN [code |-> v, date |-> d, seq |-> "1"]
                ELSE IF shape = "latest"
                THEN [code |-> v, date |-> DayNames[2], seq |-> "1"]
                ELSE [code |-> v, seq |-> "1"]
    IN  IF v = ValueNames[2] THEN <<base, [base EXCEPT !["seq"] = "2"]>>
        ELSE <<base>>

Api(cfg, shape, answered) ==
    [p \in PairsOf(cfg) |-> IF p \in answered THEN ApiRows(shape, p[1], p[2]) ELSE <<>>]

\* Every subset of the (date, value) pairs may be the answered ones.
Apis(cfg) ==
    {Api(cfg, shape, answered) :
        shape \in RowShapes, answered \in SUBSET PairsOf(cfg)}

\* The source answers every pair, or all but those of one date, or all but
\* those of one value.
RerunApis(cfg) ==
    {Api(cfg, shape, {p \in PairsOf(cfg) : p[1] # silent /\ p[2] # silent}) :
        shape \in RowShapes,
        silent \in {""} \cup Range(DatesOf(cfg))
                        \cup Range(_get_batch_values(cfg["batch_config"]))}

Tables == {"prices", "stocks"}

BqTable(cfg) == Get(cfg, "bq_table", Get(cfg, "name", "unknown"))

InitialRows ==
    {<<>>,
     <<[code |-> "OLD", date |-> DayNames[1], seq |-> "1", _sys_ingested_at |-> 0]>>}

InitEngine ==
    /\ clock = 1
    /\ batch_values = <<>>
    /\ date_list = <<>>
    /\ date_idx = 0
    /\ i = 0
    /\ date_data = <<>>
    /\ total_records = 0
    /\ batches_processed = 0
    /\ result = NoResult
    /\ calls = <<>>
    /\ at_entry = sink
    /\ at_raise = NoRaise
    /\ run = 1
    /\ history = <<>>
    /\ tree = "src"

\* No helper is called directly.
InitNoCall ==
    /\ fn = None
    /\ args = EmptyDict
    /\ ret = NoReturn

InitBatchOn(stocks) ==
    /\ \E rows \in InitialRows : sink = [t \in Tables |-> IF t = "prices" THEN rows ELSE stocks]
    /\ pc = "batch"
    /\ InitEngine
    /\ InitNoCall
    /\ config_file = <<>>
    /\ endpoints_config = <<>>
    /\ mode_filter = None
    /\ ppc = "off"
    /\ ep = 0
    /\ results = <<>>
    /\ summary = NoResult
    /\ executed = <<>>

InitBatch == InitBatchOn(<<>>)

\* BatchMode.execute on its own, invoked once.
Init ==
    /\ endpoint_config \in BatchConfigs \cup QueryConfigs
    /\ api \in Apis(endpoint_config)
    /\ InitBatch

\* BatchMode.execute invoked twice on the same inputs.
InitRerun ==
    /\ endpoint_config \in RerunConfigs
    /\ api \in RerunApis(endpoint_config)
    /\ InitBatch

\* ---------------------------------------------------------------- BatchMode.execute
Success(cfg, n, total) ==
    [endpoint |-> Get(cfg, "name", "unknown"), mode |-> "batch", status |-> "success",
     batches_processed |-> n, total_records_loaded |-> total]

Failed(cfg, mode, error) ==
    [endpoint |-> Get(cfg, "name", "unknown"), mode |-> mode, status |-> "failed",
     error |-> error]

\* Line 262, 'batches_processed': len(batch_values): the result reports the
\* number of values, not the counter the inner loop increments.
ReportedBatches_Counted(values, counted) == counted

ReportedBatches(values, counted) == Len(values)

\* Lines 124-165: resolve the iteration values and the date list.
BatchStart ==
    /\ pc = "batch"
    /\ \E outcome \in
            IF UsesSource(Get(endpoint_config, "batch_config", EmptyDict))
            THEN LookupOutcomes(BatchValuesQuery(tree,
                                    Get(endpoint_config, "batch_config", EmptyDict)))
            ELSE {"ok"} :
       LET batch_config == Get(endpoint_config, "batch_config", EmptyDict)
           query == BatchValuesQuery(tree, batch_config)
           values == IF UsesSource(batch_config)
                     THEN ValuesAfterLookup(outcome,
                              QueryResult(query, sink[batch_config["source_table"]]))
                     ELSE _get_batch_values(batch_config)
           dates == DatesOf(endpoint_config)
       IN  /\ batch_values' = values
           /\ calls' = IF UsesSource(batch_config)
                       THEN <<query @@ [ok |-> outcome = "ok"]>>
                       ELSE <<>>
           /\ IF values = <<>>
              THEN /\ result' = Success(endpoint_config, 0, 0)
                   /\ pc' = "return"
                   /\ date_list' = <<>>
                   /\ date_idx' = 0
                   /\ i' = 0
              ELSE /\ date_list' = dates
                   /\ IF dates = <<>>
                      THEN /\ result' = Success(endpoint_config,
                                                ReportedBatches(values, 0), 0)
                           /\ pc' = "return"
                           /\ date_idx' = 0
                           /\ i' = 0
                      ELSE /\ result' = NoResult
                           /\ pc' = "fetch"
                           /\ date_idx' = 1
                           /\ i' = 1
    /\ date_data' = <<>>
    /\ total_records' = 0
    /\ batches_processed' = 0
    /\ at_entry' = sink
    /\ at_raise' = NoRaise
    /\ UNCHANGED <<library, tree>>
    /\ UNCHANGED <<endpoint_config, api, sink, clock, run, history, pipeline>>

\* Lines 184-199: the path variables and query parameters of one fetch.
CurrentPathVars(cfg, value) ==
    LET iterate_by == Get(Get(cfg, "batch_config", EmptyDict), "iterate_by", None)
        path_variables == Get(cfg, "path_variables", EmptyDict)
    IN  IF Truthy(iterate_by) /\ Token(iterate_by) \in Range(Get(cfg, "path", <<>>))
        THEN (iterate_by :> value) @@ path_variables
        ELSE path_variables

CurrentParams(cfg, value, date_value) ==
    LET iterate_by == Get(Get(cfg, "batch_config", EmptyDict), "iterate_by", None)
        params == Get(cfg, "params", EmptyDict)
        with_value ==
            IF Truthy(iterate_by) /\ Token(iterate_by) \notin Range(Get(cfg, "path", <<>>))
            THEN (iterate_by :> <<value>>) @@ params
            ELSE params
    IN  [k \in DOMAIN with_value |->
            IF Truthy(date_value)
            THEN Render(with_value[k], [date |-> date_value])
            ELSE Concat(with_value[k])]

\* The end of one date's turn of the outer loop (line 169), and the return of
\* line 258 when the dates are exhausted.
NextDate(total, counted) ==
    IF date_idx < Len(date_list)
    THEN /\ pc' = "fetch"
         /\ date_idx' = date_idx + 1
         /\ i' = 1
         /\ result' = result
    ELSE /\ pc' = "return"
         /\ date_idx' = date_idx
         /\ i' = i
         /\ result' = Success(endpoint_config,
                              ReportedBatches(batch_values, counted), total)

\* Line 224, `if date_data:`: a date is written only when its buffer has rows.
ShouldLoad_Always(buffer) == TRUE

ShouldLoad(buffer) == buffer # <<>>

\* Lines 185-186, path_variables.copy() and params.copy(): the value and the
\* date are written into copies, the maps of the configuration are not
\* touched.
AfterFetch_Aliased(cfg, current_params, current_path_vars) ==
    [cfg EXCEPT !["path_variables"] = current_path_vars]

AfterFetch(cfg, current_params, current_path_vars) == cfg

\* Line 173, `date_data = []` at the head of every turn of the outer loop:
\* the next date starts from an empty buffer.
FreshBuffer_Keep(buffer) == buffer

FreshBuffer(buffer) == <<>>

\* Line 176, `for i, value in enumerate(batch_values, 1)`: the inner loop
\* goes on to the next value of the same date while there is one.
MoreValues_OnePerDate(pos, values) == FALSE

MoreValues(pos, values) == pos < Len(values)

\* Line 221, date_data.extend(data): the records of one fetch go to the end of
\* the date's buffer.
Extend_Replace(buffer, data) == data

Extend(buffer, data) == buffer \o data

\* Lines 176-221: one turn of the inner loop: one fetch_data call, and the
\* injection of columns into what it returned.
BatchFetch ==
    /\ pc = "fetch"
    /\ LET date_value == date_list[date_idx]
           value == batch_values[i]
           iterate_by == Get(Get(endpoint_config, "batch_config", EmptyDict),
                             "iterate_by", None)
           call == [op |-> "fetch_data",
                    endpoint |-> Get(endpoint_config, "path", <<>>),
                    params |-> CurrentParams(endpoint_config, value, date_value),
                    path_variables |-> CurrentPathVars(endpoint_config, value),
                    date |-> date_value, value |-> value]
           fetched == api[<<date_value, value>>]
           data == IF fetched # <<>>
                   THEN _inject_columns(fetched,
                            Get(endpoint_config, "inject_columns", EmptyDict),
                            ("date" :> date_value) @@ (iterate_by :> value))
                   ELSE <<>>
           buffer == Extend(date_data, data)
       IN  /\ batches_processed' = batches_processed + 1
           /\ \E ok \in BOOLEAN :
                /\ calls' = Append(calls, call @@ [ok |-> ok])
                /\ IF ~ok
                   THEN /\ pc' = "raised"
                        /\ at_raise' = [raised |-> TRUE, sink |-> sink,
                                        ncalls |-> Len(calls) + 1]
                        /\ UNCHANGED <<date_data, date_idx, i, result>>
                   ELSE /\ at_raise' = at_raise
                        /\ IF MoreValues(i, batch_values)
                           THEN /\ i' = i + 1
                                /\ date_data' = buffer
                                /\ UNCHANGED <<pc, date_idx, result>>
                           ELSE IF ShouldLoad(buffer)
                                THEN /\ pc' = "load"
                                     /\ date_data' = buffer
                                     /\ UNCHANGED <<date_idx, i, result>>
                                ELSE /\ date_data' = FreshBuffer(buffer)
                                     /\ NextDate(total_records, batches_processed + 1)
    /\ endpoint_config' =
         AfterFetch(endpoint_config,
                    CurrentParams(endpoint_config, batch_values[i], date_list[date_idx]),
                    CurrentPathVars(endpoint_config, batch_values[i]))
    /\ UNCHANGED <<library, tree>>
    /\ UNCHANGED <<api, sink, clock, batch_values, date_list,
                   total_records, at_entry, run, history, pipeline>>

\* Lines 228-231: the context the filter of a date's write is built from, in
\* which the iteration key is null whatever value the inner loop ended on.
PartitionContext_WithValue(iterate_by, value, date_value) ==
    ("date" :> date_value) @@ (iterate_by :> value)

PartitionContext(iterate_by, value, date_value) ==
    ("date" :> date_value) @@ (iterate_by :> None)

\* Lines 224-252: the single load_data call of a date whose buffer is not
\* empty, with load_data itself (bigquery_loader.py 121-182).
BatchLoad ==
    /\ pc = "load"
    /\ LET date_value == date_list[date_idx]
           iterate_by == Get(Get(endpoint_config, "batch_config", EmptyDict),
                             "iterate_by", None)
           partition_fields ==
               _build_partition_fields(Get(endpoint_config, "partition_key", <<>>),
                   PartitionContext(iterate_by, batch_values[Len(batch_values)],
                                    date_value))
           write_disposition == IF DOMAIN partition_fields # {}
                                THEN "WRITE_TRUNCATE_PARTITION" ELSE "WRITE_APPEND"
           call == [op |-> "load_data", data |-> date_data,
                    write_disposition |-> write_disposition,
                    partition_fields |-> partition_fields, date |-> date_value]
           stamped == _add_system_columns(date_data, clock)
           table == BqTable(endpoint_config)
       IN  \E delete_outcome \in DeleteOutcomes(sink[table]), load_ok \in BOOLEAN :
             LET delete_ok == delete_outcome = "ok"
                 before == [sink EXCEPT ![table] =
                               BeforeLoadJob(sink[table], write_disposition,
                                             partition_fields, delete_ok)]
                 deletes == write_disposition = "WRITE_TRUNCATE_PARTITION"
                 ok == load_ok /\ (deletes => ~DeleteRaises(delete_outcome))
             IN  /\ deletes \/ delete_ok
                 /\ calls' = Append(calls,
                        call @@ [ok |-> ok, delete_ok |-> delete_ok,
                                 delete |-> IF deletes THEN delete_outcome ELSE None])
                 /\ clock' = clock + 1
                 /\ IF ~ok
                    THEN /\ sink' = before
                         /\ pc' = "raised"
                         /\ at_raise' = [raised |-> TRUE, sink |-> before,
                                         ncalls |-> Len(calls) + 1]
                         /\ UNCHANGED <<date_data, date_idx, i, result, total_records>>
                    ELSE /\ sink' = [before EXCEPT ![table] =
                                        AfterLoadJob(before[table], stamped,
                                            NormalizedDisposition(write_disposition))]
                         /\ total_records' = total_records + Len(stamped)
                         /\ at_raise' = at_raise
                         /\ date_data' = FreshBuffer(date_data)
                         /\ NextDate(total_records + Len(stamped), batches_processed)
    /\ UNCHANGED <<library, tree>>
    /\ UNCHANGED <<endpoint_config, api, batch_values, date_list, batches_processed,
                   at_entry, run, history, pipeline>>

\* Lines 266-273: the except clause of execute logs and builds the failed
\* result; it issues no call and leaves the tables as they are.
ExceptHandler_Rollback(tables) == at_entry

ExceptHandler(tables) == tables

BatchExcept ==
    /\ pc = "raised"
    /\ result' = Failed(endpoint_config, "batch", "error")
    /\ pc' = "return"
    /\ sink' = ExceptHandler(sink)
    /\ UNCHANGED <<library, tree>>
    /\ UNCHANGED <<endpoint_config, api, clock, batch_values, date_list, date_idx,
                   i, date_data, total_records, batches_processed, calls, at_entry,
                   at_raise, run, history, pipeline>>

\* The caller invokes execute a second time with the same inputs.
Reinvoke ==
    /\ pc = "return"
    /\ ppc = "off"
    /\ run = 1
    /\ history' = Append(history, [result |-> result, calls |-> calls,
                                    entry |-> at_entry, sink |-> sink])
    /\ run' = run + 1
    /\ pc' = "batch"
    /\ UNCHANGED <<library, tree>>
    /\ UNCHANGED <<endpoint_config, api, sink, clock, batch_values, date_list,
                   date_idx, i, date_data, total_records, batches_processed, result,
                   calls, at_entry, at_raise, pipeline>>

Next == BatchStart \/ BatchFetch \/ BatchLoad \/ BatchExcept

Spec == Init /\ [][Next]_vars

NextRerun == Next \/ Reinvoke

SpecRerun == InitRerun /\ [][NextRerun]_vars

\* ------------------------------------------------- the dynamic source, both copies
\* Endpoints whose batch_config has no values, an empty list or a static list,
\* and names no source, a table without a column, or a table and a column
\* with or without a filter.
SourceParts ==
    {EmptyDict,
     [source_table |-> "stocks"],
     [source_table |-> "stocks", source_column |-> "code"],
     [source_table |-> "stocks", source_column |-> "code", source_filter |-> ""],
     [source_table |-> "stocks", source_column |-> "code",
      source_filter |-> SourceFilter]}

ValueParts == {EmptyDict, [values |-> <<>>], [values |-> StaticValues(MaxValues)]}

SourceConfigs ==
    {[BatchConfig(0, di, <<"date">>, EmptyDict)
        EXCEPT !["batch_config"] =
            values @@ source @@ [iterate_by |-> "stock_code", date_iteration |-> di]] :
        di \in {[enabled |-> FALSE],
                [enabled |-> TRUE, start_date |-> DayNames[1],
                 end_date |-> DayNames[MaxDates]]},
        values \in ValueParts, source \in SourceParts}

\* The source table: a value twice, values out of order, a row without value.
SourceRows ==
    <<[code |-> "BBRI", active |-> "Y"], [code |-> "BBCA", active |-> "N"],
      [code |-> "BBCA", active |-> "N"], [code |-> None, active |-> "N"]>>

\* The record source answers every pair, or only the pairs of the first value.
SourceApis(cfg) ==
    LET values == Range(StaticValues(MaxValues)) \cup {"BBCA", "BBRI"}
        pairs == Range(DatesOf(cfg)) \X values
    IN  {[p \in pairs |-> IF p[2] \in answering THEN ApiRows("dated", p[1], p[2])
                          ELSE <<>>] :
            answering \in {values, {"BBCA"}}}

InitSource ==
    /\ endpoint_config \in SourceConfigs
    /\ api \in SourceApis(endpoint_config)
    /\ InitBatchOn(SourceRows)

\* The same inputs are handed to the copy of src/cloud_run_function/main.py:
\* the tables are as they were when the first copy was entered.
RunOtherCopy ==
    /\ pc = "return"
    /\ ppc = "off"
    /\ run = 1
    /\ tree = "src"
    /\ history' = Append(history, [result |-> result, calls |-> calls,
                                    entry |-> at_entry, sink |-> sink])
    /\ run' = run + 1
    /\ tree' = "cloud_run_function"
    /\ sink' = at_entry
    /\ clock' = 1
    /\ pc' = "batch"
    /\ UNCHANGED library
    /\ UNCHANGED <<endpoint_config, api, batch_values, date_list,
                   date_idx, i, date_data, total_records, batches_processed, result,
                   calls, at_entry, at_raise, pipeline>>

NextSource == Next \/ RunOtherCopy

SpecSource == InitSource /\ [][NextSource]_vars

\* ---------------------------------------------------------------- OnetimeMode.execute
OnetimeKey == <<None, None>>

\* Line 75, `if not data:`.
NoData_Never(data) == FALSE

NoData(data) == data = <<>>

\* Line 93: the write disposition of the onetime load.
OnetimeDisposition_Append(cfg) == "WRITE_APPEND"

OnetimeDisposition(cfg) == "WRITE_TRUNCATE"

\* Lines 57-83: the single fetch, with the configured params and path
\* variables as they are.
OnetimeFetch ==
    /\ pc = "onetime"
    /\ LET call == [op |-> "fetch_data",
                    endpoint |-> Get(endpoint_config, "path", <<>>),
                    params |-> Get(endpoint_config, "params", EmptyDict),
                    path_variables |-> Get(endpoint_config, "path_variables", EmptyDict),
                    date |-> None, value |-> None]
           data == api[OnetimeKey]
       IN  \E ok \in BOOLEAN :
             /\ calls' = <<call @@ [ok |-> ok]>>
             /\ at_entry' = sink
             /\ IF ~ok
                THEN /\ pc' = "onetime_raised"
                     /\ at_raise' = [raised |-> TRUE, sink |-> sink, ncalls |-> 1]
                     /\ result' = NoResult
                     /\ date_data' = <<>>
                ELSE /\ at_raise' = NoRaise
                     /\ IF NoData(data)
                        THEN /\ pc' = "return"
                             /\ result' = [endpoint |-> Get(endpoint_config, "name", "unknown"),
                                           mode |-> "onetime", status |-> "success",
                                           records_fetched |-> 0, records_loaded |-> 0]
                             /\ date_data' = <<>>
                        ELSE /\ pc' = "onetime_load"
                             /\ result' = NoResult
                             /\ date_data' = data
    /\ UNCHANGED <<library, tree>>
    /\ UNCHANGED <<endpoint_config, api, sink, clock, batch_values, date_list, date_idx,
                   i, total_records, batches_processed, run, history, pipeline>>

\* Lines 87-104: the single load_data call, always a full-table replace and
\* without partition_fields, with load_data itself.
OnetimeLoad ==
    /\ pc = "onetime_load"
    /\ LET write_disposition == OnetimeDisposition(endpoint_config)
           call == [op |-> "load_data", data |-> date_data,
                    write_disposition |-> write_disposition,
                    partition_fields |-> None, date |-> None]
           stamped == _add_system_columns(date_data, clock)
           table == BqTable(endpoint_config)
       IN  \E ok \in BOOLEAN :
             /\ calls' = Append(calls, call @@ [ok |-> ok, delete_ok |-> TRUE,
                                                delete |-> None])
             /\ clock' = clock + 1
             /\ IF ~ok
                THEN /\ pc' = "onetime_raised"
                     /\ at_raise' = [raised |-> TRUE, sink |-> sink,
                                     ncalls |-> Len(calls) + 1]
                     /\ UNCHANGED <<sink, result>>
                ELSE /\ sink' = [sink EXCEPT ![table] =
                                    AfterLoadJob(sink[table], stamped,
                                        NormalizedDisposition(write_disposition))]
                     /\ pc' = "return"
                     /\ at_raise' = at_raise
                     /\ result' = [endpoint |-> Get(endpoint_config, "name", "unknown"),
                                   mode |-> "onetime", status |-> "success",
                                   records_fetched |-> Len(date_data),
                                   records_loaded |-> Len(stamped)]
    /\ UNCHANGED <<library, tree>>
    /\ UNCHANGED <<endpoint_config, api, batch_values, date_list, date_idx, i,
                   date_data, total_records, batches_processed, at_entry, run,
                   history, pipeline>>

\* Lines 106-113: the except clause of OnetimeMode.execute.
OnetimeExcept ==
    /\ pc = "onetime_raised"
    /\ result' = Failed(endpoint_config, "onetime", "error")
    /\ pc' = "return"
    /\ UNCHANGED <<library, tree>>
    /\ UNCHANGED <<endpoint_config, api, sink, clock, batch_values, date_list,
                   date_idx, i, date_data, total_records, batches_processed, calls,
                   at_entry, at_raise, run, history, pipeline>>

\* ---------------------------------------------------------------- StreamingMode.execute
\* Lines 422-440: the stub.
StreamingExecute ==
    /\ pc = "streaming"
    /\ result' = [endpoint |-> Get(endpoint_config, "name", "unknown"),
                  mode |-> "streaming", status |-> "not_implemented",
                  message |-> "Streaming mode will use partition replacement for idempotency"]
    /\ pc' = "return"
    /\ calls' = <<>>
    /\ at_entry' = sink
    /\ at_raise' = NoRaise
    /\ UNCHANGED <<library, tree>>
    /\ UNCHANGED <<endpoint_config, api, sink, clock, batch_values, date_list,
                   date_idx, i, date_data, total_records, batches_processed, run,
                   history, pipeline>>

\* ---------------------------------------------------------------- DataPipeline
MaxEndpoints == 2   \* longest endpoint list of the configuration file

EndpointNames == <<"ep1", "ep2", "ep3", "ep4">>

\* settings.py 64-72.
get_enabled_endpoints_All(all_endpoints) == all_endpoints

get_enabled_endpoints(all_endpoints) ==
    SelectSeq(all_endpoints, LAMBDA e : Get(e, "enabled", TRUE))

\* main.py 155-164: the command-line dates replace the range of every endpoint
\* whose date iteration is enabled.
OverrideDates(e, start_date, end_date) ==
    LET batch_config == Get(e, "batch_config", EmptyDict)
        date_iteration == Get(batch_config, "date_iteration", EmptyDict)
    IN  IF Get(date_iteration, "enabled", FALSE)
        THEN [e EXCEPT !["batch_config"]["date_iteration"] =
                 [date_iteration EXCEPT !["start_date"] = start_date,
                                        !["end_date"] = end_date]]
        ELSE e

\* pipeline.py 149-153: the mode filter.
FilterByMode_KeepAll(endpoints, filter) == endpoints

FilterByMode(endpoints, filter) ==
    IF Truthy(filter)
    THEN SelectSeq(endpoints,
                   LAMBDA e : Get(e, "execution_mode", "onetime") = filter)
    ELSE endpoints

\* main.py 147-194: load the enabled endpoints and hand them to run.
Main ==
    /\ ppc = "main"
    /\ LET enabled == get_enabled_endpoints(config_file)
       IN  IF enabled = <<>>
           THEN /\ ppc' = "exit"
                /\ UNCHANGED endpoints_config
           ELSE /\ ppc' = "run"
                /\ endpoints_config' =
                       [k \in DOMAIN enabled |->
                           OverrideDates(enabled[k], DayNames[1], DayNames[1])]
    /\ UNCHANGED <<library, tree>>
    /\ UNCHANGED <<endpoint_config, api, sink, clock, pc, batch_values, date_list,
                   date_idx, i, date_data, total_records, batches_processed, result,
                   calls, at_entry, at_raise, run, history, config_file, mode_filter,
                   ep, results, summary, executed>>

\* pipeline.py 164-188: the summary of a completed run.
RECURSIVE TotalRecords(_)
TotalRecords(rs) ==
    IF rs = <<>> THEN 0
    ELSE (IF Get(Head(rs), "records_loaded", 0) # 0
          THEN Get(Head(rs), "records_loaded", 0)
          ELSE Get(Head(rs), "total_records_loaded", 0))
         + TotalRecords(Tail(rs))

FailedCount_All(rs) == Len(rs)

FailedCount(rs) == Cardinality({k \in DOMAIN rs : Get(rs[k], "status", None) = "failed"})

ModeCounts(rs) ==
    [m \in {Get(rs[k], "mode", "unknown") : k \in DOMAIN rs} |->
        Cardinality({k \in DOMAIN rs : Get(rs[k], "mode", "unknown") = m})]

Summary(rs, filter) ==
    [status |-> "completed",
     endpoints_processed |-> Len(rs),
     endpoints_failed |-> FailedCount(rs),
     total_records_loaded |-> TotalRecords(rs),
     mode_filter |-> filter,
     mode_counts |-> ModeCounts(rs),
     results |-> rs,
     message |-> "Pipeline execution completed"]

\* pipeline.py 138-157 and 190-196: the set-up of run (secret, clients,
\* dataset), which may raise, and the mode filter.
RunSetup ==
    /\ ppc = "run"
    /\ \E setup_ok \in BOOLEAN :
         IF ~setup_ok
         THEN /\ summary' = [status |-> "failed", error |-> "error",
                             message |-> "Pipeline execution failed"]
              /\ ppc' = "done"
              /\ UNCHANGED <<endpoints_config, ep, results>>
         ELSE /\ endpoints_config' = FilterByMode(endpoints_config, mode_filter)
              /\ results' = <<>>
              /\ ep' = 1
              /\ ppc' = "loop"
              /\ summary' = summary
    /\ UNCHANGED <<library, tree>>
    /\ UNCHANGED <<endpoint_config, api, sink, clock, pc, batch_values, date_list,
                   date_idx, i, date_data, total_records, batches_processed, result,
                   calls, at_entry, at_raise, run, history, config_file, mode_filter,
                   executed>>

\* pipeline.py 60-79: the registry of execution mode handlers.
Handlers == {"onetime", "batch", "streaming"}

\* pipeline.py 101, self.execution_modes.get(execution_mode): the handler
\* registered for the mode, or None.
HandlerFor_StreamingAsOnetime(execution_mode) ==
    IF execution_mode = "streaming" THEN "onetime"
    ELSE IF execution_mode \in Handlers THEN execution_mode ELSE None

HandlerFor_DefaultOnetime(execution_mode) ==
    IF execution_mode \in Handlers THEN execution_mode ELSE "onetime"

HandlerFor(execution_mode) ==
    IF execution_mode \in Handlers THEN execution_mode ELSE None

\* pipeline.py 160-161 and 94-113: the loop hands the next endpoint to
\* run_single_endpoint, which looks its handler up and calls execute.
RunSingleEndpoint ==
    /\ ppc = "loop"
    /\ pc = "idle"
    /\ ep <= Len(endpoints_config)
    /\ LET cfg == endpoints_config[ep]
           execution_mode == Get(cfg, "execution_mode", "onetime")
       IN  /\ endpoint_config' = cfg
           /\ executed' = Append(executed, Get(cfg, "name", "unknown"))
           /\ IF HandlerFor(execution_mode) # None
              THEN /\ pc' = HandlerFor(execution_mode)
                   /\ result' = NoResult
              ELSE /\ pc' = "return"
                   /\ result' = [endpoint |-> Get(cfg, "name", "unknown"),
                                 status |-> "failed",
                                 error |-> "Unknown execution mode"]
           /\ calls' = <<>>
           /\ at_entry' = sink
           /\ at_raise' = NoRaise
    /\ UNCHANGED <<library, tree>>
    /\ UNCHANGED <<api, sink, clock, batch_values, date_list, date_idx, i, date_data,
                   total_records, batches_processed, run, history, config_file,
                   endpoints_config, mode_filter, ppc, ep, results, summary>>

\* pipeline.py 160: the for loop moves to the next endpoint, whatever the
\* result of the one it has just run.
NextEndpoint_StopOnFailure(pos, res) ==
    IF res["status"] = "failed" THEN Len(endpoints_config) + 1 ELSE pos + 1

NextEndpoint(pos, res) == pos + 1

\* pipeline.py 162: the result is appended.
CollectResult ==
    /\ ppc = "loop"
    /\ pc = "return"
    /\ results' = Append(results, result)
    /\ ep' = NextEndpoint(ep, result)
    /\ pc' = "idle"
    /\ UNCHANGED <<library, tree>>
    /\ UNCHANGED <<endpoint_config, api, sink, clock, batch_values, date_list,
                   date_idx, i, date_data, total_records, batches_processed, result,
                   calls, at_entry, at_raise, run, history, config_file,
                   endpoints_config, mode_filter, ppc, summary, executed>>

\* pipeline.py 164-188: the loop is over; run returns the summary.
Summarize ==
    /\ ppc = "loop"
    /\ pc = "idle"
    /\ ep > Len(endpoints_config)
    /\ summary' = Summary(results, mode_filter)
    /\ ppc' = "done"
    /\ UNCHANGED <<library, tree>>
    /\ UNCHANGED <<endpoint_config, api, sink, clock, pc, batch_values, date_list,
                   date_idx, i, date_data, total_records, batches_processed, result,
                   calls, at_entry, at_raise, run, history, config_file,
                   endpoints_config, mode_filter, ep, results, executed>>

\* The endpoints a configuration file may hold at position k.
OnetimeParams == [limit |-> <<"100">>]
OnetimePathVariables == [market |-> "idx"]

EndpointsAt(k) ==
    LET base == [name |-> EndpointNames[k]]
        onetime == [path |-> <<"/stocks/", "{market}">>, bq_table |-> "stocks",
                    params |-> OnetimeParams, path_variables |-> OnetimePathVariables]
        batch == [path |-> <<"/stock/", "{stock_code}", "/prices">>,
                  bq_table |-> "prices", execution_mode |-> "batch",
                  params |-> [from |-> <<"{date}">>],
                  batch_config |-> [iterate_by |-> "stock_code",
                                    values |-> StaticValues(2),
                                    date_iteration |-> [enabled |-> TRUE,
                                                        start_date |-> DayNames[2],
                                                        end_date |-> DayNames[2]]],
                  partition_key |-> <<"date">>]
        kinds == {onetime @@ base,
                  [execution_mode |-> "onetime", partition_key |-> <<"date">>]
                      @@ onetime @@ base,
                  batch @@ base,
                  [execution_mode |-> "streaming", partition_key |-> <<"date">>]
                      @@ onetime @@ base,
                  [execution_mode |-> "hourly"] @@ onetime @@ base}
    IN  kinds \cup {[enabled |-> FALSE] @@ e : e \in kinds}

ConfigFiles ==
    UNION {{f \in [1..n -> UNION {EndpointsAt(k) : k \in 1..n}] :
              \A k \in 1..n : f[k] \in EndpointsAt(k)} : n \in 1..MaxEndpoints}

OnetimeRows == <<[code |-> "BBCA", seq |-> "1"], [code |-> "BBRI", seq |-> "1"]>>

PipelinePairs == {<<DayNames[1], ValueNames[1]>>, <<DayNames[1], ValueNames[2]>>}

PipelineApis ==
    {[p \in PipelinePairs \cup {OnetimeKey} |->
        IF p \notin answered THEN <<>>
        ELSE IF p = OnetimeKey THEN OnetimeRows
        ELSE ApiRows("dated", p[1], p[2])] :
        answered \in SUBSET (PipelinePairs \cup {OnetimeKey})}

\* The whole program: main loads the enabled endpoints and runs the pipeline.
InitPipeline ==
    /\ config_file \in ConfigFiles
    /\ mode_filter \in {None} \cup Handlers
    /\ api \in PipelineApis
    /\ \E rows \in InitialRows : sink = [t \in Tables |-> rows]
    /\ endpoint_config = EmptyDict
    /\ pc = "idle"
    /\ InitEngine
    /\ InitNoCall
    /\ endpoints_config = <<>>
    /\ ppc = "main"
    /\ ep = 0
    /\ results = <<>>
    /\ summary = NoResult
    /\ executed = <<>>

NextPipeline ==
    \/ Main \/ RunSetup \/ RunSingleEndpoint \/ CollectResult \/ Summarize
    \/ OnetimeFetch \/ OnetimeLoad \/ OnetimeExcept
    \/ BatchStart \/ BatchFetch \/ BatchLoad \/ BatchExcept
    \/ StreamingExecute

SpecPipeline == InitPipeline /\ [][NextPipeline]_vars

\* ---------------------------------------------------------------- direct calls
\* The helpers called on their own, on arguments drawn from small sets.

\* The engines and the orchestrator stand still.
InitStandstill ==
    /\ endpoint_config = EmptyDict
    /\ api = EmptyDict
    /\ pc = "idle"
    /\ InitEngine
    /\ config_file = <<>>
    /\ endpoints_config = <<>>
    /\ mode_filter = None
    /\ ppc = "off"
    /\ ep = 0
    /\ results = <<>>
    /\ summary = NoResult
    /\ executed = <<>>

Standstill ==
    UNCHANGED <<endpoint_config, api, pc, batch_values, date_list, date_idx, i,
                date_data, total_records, batches_processed, result, calls,
                at_entry, at_raise, run, history, pipeline, tree>>

\* Records as an endpoint may return them: with no system field, with a stale
\* ingestion timestamp, with several '_sys_' fields next to a field that
\* only looks like one, and with nothing but a '_sys_' field.
LoaderRecords ==
    {[code |-> "BBCA", date |-> DayNames[1]],
     [code |-> "BBRI", date |-> DayNames[2], _sys_ingested_at |-> 0],
     [code |-> "TLKM", sys_note |-> "x", _sys_ingested_at |-> 0,
      _sys_ingestion_date |-> DayNames[1]],
     [_sys_ingestion_date |-> DayNames[2]]}

LoaderData ==
    {<<r>> : r \in LoaderRecords}
    \cup {<<r1, r2>> : r1 \in LoaderRecords, r2 \in LoaderRecords}

LoadDataArgs ==
    {[table_id |-> "prices", data |-> data,
      write_disposition |-> write_disposition,
      partition_fields |-> partition_fields] :
        data \in LoaderData,
        write_disposition \in {"WRITE_APPEND", "WRITE_TRUNCATE",
                               "WRITE_TRUNCATE_PARTITION"},
        partition_fields \in {EmptyDict, [date |-> DayNames[1]]}}

\* bigquery_loader.py 121-182: load_data stamps the records, deletes the
\* partition of a WRITE_TRUNCATE_PARTITION, submits the load job with the
\* stamped records and returns their number, or raises what the job raised.
LoadData ==
    /\ fn = "load_data"
    /\ ret = NoReturn
    /\ LET table == args["table_id"]
           write_disposition == args["write_disposition"]
           partition_fields == args["partition_fields"]
           stamped == _add_system_columns(args["data"], clock)
           deletes == write_disposition = "WRITE_TRUNCATE_PARTITION"
                      /\ DOMAIN partition_fields # {}
       IN  \E delete_outcome \in DeleteOutcomes(sink[table]), load_ok \in BOOLEAN :
             LET before == BeforeLoadJob(sink[table], write_disposition,
                                         partition_fields, delete_outcome = "ok")
                 ok == load_ok /\ (deletes => ~DeleteRaises(delete_outcome))
             IN  /\ deletes \/ delete_outcome = "ok"
                 /\ clock' = clock + 1
                 /\ IF ok
                    THEN /\ sink' = [sink EXCEPT ![table] =
                                        AfterLoadJob(before, stamped,
                                            NormalizedDisposition(write_disposition))]
                         /\ ret' = [raised |-> FALSE, value |-> Len(stamped),
                                    job |-> stamped, now |-> clock,
                                    delete |-> IF deletes THEN delete_outcome ELSE None]
                    ELSE /\ sink' = [sink EXCEPT ![table] = before]
                         /\ ret' = [raised |-> TRUE,
                                    job |-> IF deletes /\ DeleteRaises(delete_outcome)
                                            THEN <<>> ELSE stamped,
                                    now |-> clock,
                                    delete |-> IF deletes THEN delete_outcome ELSE None]
    /\ UNCHANGED <<fn, args>>
    /\ Standstill

\* A helper without side effect returns.
Return(value) ==
    /\ ret' = [raised |-> FALSE, value |-> value]
    /\ UNCHANGED <<fn, args, sink, clock>>
    /\ Standstill

\* The date_iteration dicts: each bound a day, a day without leading zero,
\* an unparsable string, the empty string, or missing.
DateStrings ==
    Range(DayNames) \cup {Unpadded[1], Unpadded[3]} \cup Unparsable \cup {""}

DateRangeArgs ==
    {[date_iteration |-> [enabled |-> TRUE, start_date |-> a, end_date |-> b]] :
        a \in DateStrings, b \in DateStrings}
    \cup {[date_iteration |-> [enabled |-> TRUE, start_date |-> a]] : a \in DateStrings}
    \cup {[date_iteration |-> [enabled |-> TRUE, end_date |-> b]] : b \in DateStrings}

CallGetDateRange ==
    /\ fn = "_get_date_range"
    /\ ret = NoReturn
    /\ Return(_get_date_range(args["date_iteration"]))

\* Records with and without the fields the templates set.
InjectRecords ==
    {[code |-> "BBCA", close |-> "100"],
     [code |-> "BBRI", date |-> "1999-01-01", src |-> "old"]}

\* Templates: none, one token, tokens between literals, a token no context
\* key matches.
InjectTemplates ==
    {EmptyDict,
     [date |-> <<"{date}">>],
     [src |-> <<"{stock_code}", ":", "{date}">>, date |-> <<"{date}">>],
     [src |-> <<"api-", "{region}", "-", "{stock_code}">>]}

InjectContexts ==
    {[stock_code |-> value, date |-> date_value] :
        value \in {ValueNames[1], None}, date_value \in {DayNames[1], None}}

InjectColumnsArgs ==
    {[data |-> data, inject_columns |-> inject_columns, context |-> context] :
        data \in {<<r>> : r \in InjectRecords}
                 \cup {<<r1, r2>> : r1 \in InjectRecords, r2 \in InjectRecords},
        inject_columns \in InjectTemplates,
        context \in InjectContexts}

CallInjectColumns ==
    /\ fn = "_inject_columns"
    /\ ret = NoReturn
    /\ Return(_inject_columns(args["data"], args["inject_columns"], args["context"]))

\* Key lists: none, one key, two keys in both orders, a key no context has.
PartitionKeyLists ==
    {<<>>, <<"date">>, <<"date", "region">>, <<"region", "date">>, <<"exchange">>}

\* Contexts with a key present, null-valued or absent.
PartitionContexts ==
    {EmptyDict}
    \cup {[date |-> date_value] : date_value \in {DayNames[1], None}}
    \cup {[date |-> date_value, region |-> region] :
             date_value \in {DayNames[1], None}, region \in {"ID", None}}
    \cup {[stock_code |-> None, date |-> DayNames[2]]}

PartitionFieldsArgs ==
    {[partition_key |-> partition_key, context |-> context] :
        partition_key \in PartitionKeyLists, context \in PartitionContexts}

CallBuildPartitionFields ==
    /\ fn = "_build_partition_fields"
    /\ ret = NoReturn
    /\ Return(_build_partition_fields(args["partition_key"], args["context"]))

\* Responses of every shape: objects with and without a 'data' entry, that
\* entry an array, an object or a scalar; arrays; scalars.
JsonRecords ==
    {JObject([id |-> JNumber(1), name |-> JString("test")]),
     JObject([id |-> JNumber(2)]),
     JObject(EmptyDict)}

JsonArrays ==
    {JArray(<<>>)}
    \cup {JArray(<<r>>) : r \in JsonRecords}
    \cup {JArray(<<r1, r2>>) : r1 \in JsonRecords, r2 \in JsonRecords}

JsonScalars == {JNull, JNumber(7), JString("error"), JBool(TRUE)}

Responses ==
    JsonRecords \cup JsonArrays \cup JsonScalars
    \cup {JObject([data |-> d]) : d \in JsonRecords \cup JsonArrays \cup JsonScalars}
    \cup {JObject([data |-> d, total |-> JNumber(2)]) : d \in JsonRecords \cup JsonArrays}

NormalizeArgs == {[data |-> data] : data \in Responses}

CallNormalizeResponse ==
    /\ fn = "_normalize_response"
    /\ ret = NoReturn
    /\ Return(_normalize_response(args["data"]))

Helpers == {"load_data", "_get_date_range", "_inject_columns",
            "_build_partition_fields", "_normalize_response"}

ArgsOf(f) ==
    IF f = "load_data" THEN LoadDataArgs
    ELSE IF f = "_get_date_range" THEN DateRangeArgs
    ELSE IF f = "_inject_columns" THEN InjectColumnsArgs
    ELSE IF f = "_build_partition_fields" THEN PartitionFieldsArgs
    ELSE IF f = "_normalize_response" THEN NormalizeArgs
    ELSE {EmptyDict}

InitLibrary ==
    /\ fn \in Helpers
    /\ args \in ArgsOf(fn)
    /\ ret = NoReturn
    /\ \E rows \in (IF fn = "load_data" THEN InitialRows ELSE {<<>>}) :
         sink = [t \in Tables |-> IF t = "prices" THEN rows ELSE <<>>]
    /\ InitStandstill

NextLibrary ==
    \/ LoadData
    \/ CallGetDateRange
    \/ CallInjectColumns
    \/ CallBuildPartitionFields
    \/ CallNormalizeResponse

SpecLibrary == InitLibrary /\ [][NextLibrary]_vars

\* ================================================================ properties
IsLoad(c) == c["op"] = "load_data"
IsFetch(c) == c["op"] = "fetch_data"
Loads(cs) == SelectSeq(cs, IsLoad)
Fetches(cs) == SelectSeq(cs, IsFetch)
NoCallFailed(cs) == \A k \in DOMAIN cs : cs[k]["ok"]
Returned == pc = "return"
Table == BqTable(endpoint_config)

\* The rows without their ingestion timestamp.
Strip(rows) == [j \in DOMAIN rows |->
                  [f \in (DOMAIN rows[j]) \ SysFields |-> rows[j][f]]]

\* A table as a multiset: how often each row occurs.
BagOf(rows) == [r \in Range(rows) |-> Cardinality({j \in DOMAIN rows : rows[j] = r})]
SameRows(a, b) == BagOf(Strip(a)) = BagOf(Strip(b))

\* The dates of the list for which at least one fetch answers with records.
AnsweredDates ==
    {k \in DOMAIN date_list :
        \E v \in Range(batch_values) : api[<<date_list[k], v>>] # <<>>}

\* C1 as stated: a batch run over a non-empty value list and a non-empty date
\* list in which no call fails issues exactly one load_data call per date,
\* whatever the fetches return.
C1_Original ==
    (Returned /\ result["status"] = "success"
        /\ batch_values # <<>> /\ date_list # <<>>)
    => Len(Loads(calls)) = Len(date_list)

\* C1 amended: such a run issues exactly one load_data call per date for which
\* at least one fetch returned records, and none for a date whose fetches all
\* came back empty; so at most one per date, whatever the number of values.
C1_LoadsPerAnsweredDate ==
    (Returned /\ result["status"] = "success"
        /\ batch_values # <<>> /\ date_list # <<>>)
    => /\ Len(Loads(calls)) = Cardinality(AnsweredDates)
       /\ Len(Loads(calls)) <= Len(date_list)
       /\ \A k \in AnsweredDates :
            Cardinality({n \in DOMAIN calls :
                IsLoad(calls[n]) /\ calls[n]["date"] = date_list[k]}) = 1

C1_Witness ==
    /\ Returned /\ result["status"] = "success"
    /\ Len(batch_values) = 2 /\ Len(date_list) = 2
    /\ Len(Fetches(calls)) = 4
    /\ Len(Loads(calls)) = 2

\* C8: with an empty iteration value list execute returns success with
\* batches_processed = 0 and total_records_loaded = 0, and has issued no fetch
\* and no sink write: the tables are as they were on entry.
C8_EmptyValues ==
    (pc \notin {"batch"}
        /\ Get(Get(endpoint_config, "batch_config", EmptyDict), "values", <<>>) = <<>>)
    => /\ Returned
       /\ result["status"] = "success"
       /\ result["batches_processed"] = 0
       /\ result["total_records_loaded"] = 0
       /\ calls = <<>>
       /\ sink = at_entry

C8_Witness ==
    /\ Returned /\ batch_values = <<>> /\ result["status"] = "success"
    /\ at_entry["prices"] # <<>>

\* The buffers of the load_data calls that succeeded, in call order.
RECURSIVE Committed(_)
Committed(cs) ==
    IF cs = <<>> THEN <<>>
    ELSE IF IsLoad(Head(cs)) /\ Head(cs)["ok"]
         THEN Head(cs)["data"] \o Committed(Tail(cs))
         ELSE Committed(Tail(cs))

IsSuffix(a, b) ==
    /\ Len(a) <= Len(b)
    /\ \A j \in DOMAIN a : b[Len(b) - Len(a) + j] = a[j]

\* Every row written by this run carries, in its 'date' column, the date it
\* was written for.
RowsCarryDate(cs) ==
    \A k \in DOMAIN cs : IsLoad(cs[k]) =>
        \A j \in DOMAIN cs[k]["data"] :
            /\ "date" \in DOMAIN cs[k]["data"][j]
            /\ cs[k]["data"][j]["date"] = cs[k]["date"]

\* No row written by this run carries a 'date' other than the one it was
\* written for (it carries that date, or none).
NoForeignDate(cs) ==
    \A k \in DOMAIN cs : IsLoad(cs[k]) =>
        \A j \in DOMAIN cs[k]["data"] :
            "date" \in DOMAIN cs[k]["data"][j]
                => cs[k]["data"][j]["date"] = cs[k]["date"]

DeleteSwallowed(cs) == \E k \in DOMAIN cs : IsLoad(cs[k]) /\ ~cs[k]["delete_ok"]

\* What one uninterrupted run of execute in which every call succeeds leaves
\* in the table, from the rows it starts with: per date, in order, the buffer
\* of that date's fetches written with the mode and filter execute computes.
DateBuffer(cfg, date_value) ==
    LET values == _get_batch_values(cfg["batch_config"])
        iterate_by == Get(cfg["batch_config"], "iterate_by", None)
        part[n \in 0..Len(values)] ==
            IF n = 0 THEN <<>>
            ELSE part[n - 1] \o
                 (IF api[<<date_value, values[n]>>] = <<>> THEN <<>>
                  ELSE _inject_columns(api[<<date_value, values[n]>>],
                           Get(cfg, "inject_columns", EmptyDict),
                           ("date" :> date_value) @@ (iterate_by :> values[n])))
    IN  part[Len(values)]

UninterruptedRun(cfg, rows0) ==
    LET dates == DatesOf(cfg)
        iterate_by == Get(cfg["batch_config"], "iterate_by", None)
        after[n \in 0..Len(dates)] ==
            IF n = 0 THEN rows0
            ELSE LET buffer == DateBuffer(cfg, dates[n])
                     partition_fields ==
                         _build_partition_fields(Get(cfg, "partition_key", <<>>),
                             ("date" :> dates[n]) @@ (iterate_by :> None))
                     write_disposition == IF DOMAIN partition_fields # {}
                                          THEN "WRITE_TRUNCATE_PARTITION"
                                          ELSE "WRITE_APPEND"
                 IN  IF ~ShouldLoad(buffer) THEN after[n - 1]
                     ELSE AfterLoadJob(
                              BeforeLoadJob(after[n - 1], write_disposition,
                                            partition_fields, TRUE),
                              buffer, NormalizedDisposition(write_disposition))
    IN  IF _get_batch_values(cfg["batch_config"]) = <<>> THEN rows0 ELSE after[Len(dates)]

\* The reference agrees with the engine: a first run in which every call
\* succeeds leaves what UninterruptedRun computes.
UninterruptedRunIsTheRun ==
    (Returned /\ result["status"] = "success" /\ ~DeleteSwallowed(calls))
    => SameRows(sink[Table], UninterruptedRun(endpoint_config, at_entry[Table]))

TwoCleanRuns ==
    /\ run = 2 /\ Returned
    /\ history[1]["result"]["status"] = "success" /\ result["status"] = "success"
    /\ ~DeleteSwallowed(history[1]["calls"]) /\ ~DeleteSwallowed(calls)

Resumed ==
    /\ run = 2 /\ Returned
    /\ Get(Get(endpoint_config["batch_config"], "date_iteration", EmptyDict),
           "enabled", FALSE)
    /\ "date" \in Range(Get(endpoint_config, "partition_key", <<>>))
    /\ history[1]["result"]["status"] = "failed"
    /\ Committed(history[1]["calls"]) # <<>>
    /\ result["status"] = "success" /\ ~DeleteSwallowed(calls)

\* C3 as stated: the resumed run leaves the rows a single uninterrupted
\* successful run leaves from the same initial table.
C3_Original ==
    Resumed => SameRows(sink[Table],
                        UninterruptedRun(endpoint_config, history[1]["entry"][Table]))

\* C3 amended: it does when every row written carries, in its 'date' column,
\* the date it was fetched for.
C3_ResumeOnDate ==
    (Resumed /\ RowsCarryDate(calls))
    => SameRows(sink[Table],
                UninterruptedRun(endpoint_config, history[1]["entry"][Table]))

C3_Witness ==
    /\ Resumed /\ RowsCarryDate(calls)
    /\ Len(Loads(calls)) = 2
    /\ history[1]["entry"][Table] # <<>>
    /\ SameRows(sink[Table],
                UninterruptedRun(endpoint_config, history[1]["entry"][Table]))

\* ---------------------------------------------------------------- the orchestrator
Completed == ppc = "done" /\ summary["status"] = "completed"
NamesOf(es) == [k \in DOMAIN es |-> Get(es[k], "name", "unknown")]
EndpointsOf(rs) == [k \in DOMAIN rs |-> rs[k]["endpoint"]]

\* C5: once the set-up has succeeded, every endpoint that passed the mode
\* filter is handed to run_single_endpoint exactly once, in list order, and
\* contributes exactly one result, whatever the status of those before it:
\* while the loop runs, the endpoints before the current position are exactly
\* the ones executed and collected; when run has returned, all of them are.
C5_EndpointIsolation ==
    /\ ppc = "loop" =>
         /\ ep <= Len(endpoints_config) + 1
         /\ EndpointsOf(results) = SubSeq(NamesOf(endpoints_config), 1, ep - 1)
         /\ executed = SubSeq(NamesOf(endpoints_config), 1,
                              IF pc = "idle" THEN ep - 1 ELSE ep)
    /\ Completed =>
         /\ executed = NamesOf(endpoints_config)
         /\ EndpointsOf(results) = NamesOf(endpoints_config)
         /\ summary["results"] = results

C5_Witness ==
    /\ Completed
    /\ Len(results) = 2
    /\ results[1]["status"] = "failed"
    /\ results[2]["status"] = "success"
    /\ executed = <<"ep1", "ep2">>

OnetimeReturned ==
    /\ pc = "return"
    /\ DOMAIN endpoint_config # {}
    /\ Get(endpoint_config, "execution_mode", "onetime") = "onetime"

\* C6: OnetimeMode.execute whose fetch returns nothing returns success with
\* records_fetched = 0 and records_loaded = 0, issues no sink write, and
\* leaves every table as it was.
C6_OnetimeEmpty ==
    (OnetimeReturned /\ api[OnetimeKey] = <<>> /\ NoCallFailed(calls))
    => /\ result["status"] = "success"
       /\ result["records_fetched"] = 0
       /\ result["records_loaded"] = 0
       /\ Len(Fetches(calls)) = 1
       /\ Loads(calls) = <<>>
       /\ sink = at_entry

C6_Witness ==
    /\ OnetimeReturned /\ api[OnetimeKey] = <<>> /\ NoCallFailed(calls)
    /\ result["status"] = "success"
    /\ at_entry[Table] # <<>>

\* C7: OnetimeMode.execute whose fetch returns records issues exactly one
\* fetch, with the configured params and path variables unchanged, and
\* exactly one sink write, with WRITE_TRUNCATE and no partition filter,
\* whatever partition_key is configured; afterwards the table holds exactly
\* the fetched records and the result counts them.
C7_OnetimeReplace ==
    (OnetimeReturned /\ api[OnetimeKey] # <<>> /\ NoCallFailed(calls))
    => /\ result["status"] = "success"
       /\ Len(calls) = 2
       /\ IsFetch(calls[1])
       /\ calls[1]["params"] = OnetimeParams
       /\ calls[1]["path_variables"] = OnetimePathVariables
       /\ IsLoad(calls[2])
       /\ calls[2]["write_disposition"] = "WRITE_TRUNCATE"
       /\ calls[2]["partition_fields"] = None
       /\ calls[2]["data"] = api[OnetimeKey]
       /\ Strip(sink[Table]) = api[OnetimeKey]
       /\ result["records_fetched"] = Len(api[OnetimeKey])
       /\ result["records_loaded"] = Len(api[OnetimeKey])

C7_Witness ==
    /\ OnetimeReturned /\ api[OnetimeKey] # <<>> /\ NoCallFailed(calls)
    /\ "date" \in Range(Get(endpoint_config, "partition_key", <<>>))
    /\ at_entry[Table] # <<>>
    /\ Strip(sink[Table]) = api[OnetimeKey]

\* The endpoints of the configuration file that are enabled and, when a mode
\* filter is given, whose execution_mode (default 'onetime') equals it.
Selected(k) ==
    /\ ("enabled" \in DOMAIN config_file[k] => config_file[k]["enabled"])
    /\ mode_filter # None =>
         (IF "execution_mode" \in DOMAIN config_file[k]
          THEN config_file[k]["execution_mode"] ELSE "onetime") = mode_filter

\* C9: a completed run has executed exactly the endpoints whose
\* execution_mode equals the mode filter, or every endpoint when there is no
\* filter, among the enabled endpoints it is given, and no disabled one.
C9_ModeFilter ==
    Completed =>
      /\ \A k \in DOMAIN config_file :
           Selected(k) <=> config_file[k]["name"] \in Range(executed)
      /\ Len(executed) = Cardinality({k \in DOMAIN config_file : Selected(k)})

C9_Witness ==
    /\ Completed
    /\ mode_filter = "batch"
    /\ Len(config_file) = 2
    /\ executed = <<"ep2">>
    /\ Get(config_file[1], "execution_mode", "onetime") = "onetime"
    /\ Get(config_file[1], "enabled", TRUE)

C9_WitnessNoFilter ==
    /\ Completed
    /\ mode_filter = None
    /\ Len(config_file) = 2
    /\ executed = <<"ep2">>
    /\ ~Get(config_file[1], "enabled", TRUE)

\* What a result counts as loaded: its records_loaded or its
\* total_records_loaded, whichever it carries.
Loaded(r) ==
    IF "records_loaded" \in DOMAIN r THEN r["records_loaded"]
    ELSE IF "total_records_loaded" \in DOMAIN r THEN r["total_records_loaded"]
    ELSE 0

RECURSIVE SumLoaded(_)
SumLoaded(rs) == IF rs = <<>> THEN 0 ELSE Loaded(Head(rs)) + SumLoaded(Tail(rs))

RECURSIVE SumOver(_, _)
SumOver(f, keys) ==
    IF keys = {} THEN 0
    ELSE LET m == CHOOSE m \in keys : TRUE IN f[m] + SumOver(f, keys \ {m})

\* C10: in the summary of a completed run, total_records_loaded is the sum
\* of what the results count as loaded, endpoints_failed is the number of
\* results with status 'failed', endpoints_processed is the number of
\* results, and the mode_counts add up to the number of results.
C10_Summary ==
    Completed =>
      /\ summary["total_records_loaded"] = SumLoaded(results)
      /\ summary["endpoints_failed"] =
            Cardinality({k \in DOMAIN results : results[k]["status"] = "failed"})
      /\ summary["endpoints_processed"] = Len(results)
      /\ SumOver(summary["mode_counts"], DOMAIN summary["mode_counts"]) = Len(results)

C10_Witness ==
    /\ Completed
    /\ Len(results) = 2
    /\ "records_loaded" \in DOMAIN results[1] /\ results[1]["records_loaded"] = 2
    /\ "total_records_loaded" \in DOMAIN results[2]
    /\ results[2]["total_records_loaded"] = 3
    /\ summary["total_records_loaded"] = 5
    /\ summary["endpoints_failed"] = 0

\* ---------------------------------------------------------------- StreamingMode
StreamingReturned ==
    /\ pc = "return"
    /\ DOMAIN endpoint_config # {}
    /\ Get(endpoint_config, "execution_mode", "onetime") = "streaming"

\* C11: StreamingMode.execute returns status 'not_implemented' for every
\* endpoint, and from the moment the endpoint is handed to it no fetch, no
\* sink write and no delete is issued: the tables are as they were.
C11_StreamingStub ==
    (DOMAIN endpoint_config # {}
        /\ Get(endpoint_config, "execution_mode", "onetime") = "streaming")
    => /\ calls = <<>>
       /\ sink = at_entry
       /\ pc \in {"streaming", "return", "idle"}
       /\ pc = "return" =>
            /\ result["status"] = "not_implemented"
            /\ result["mode"] = "streaming"
            /\ result["endpoint"] = endpoint_config["name"]

C11_Witness ==
    /\ StreamingReturned
    /\ result["status"] = "not_implemented"
    /\ at_entry["stocks"] # <<>>
    /\ "partition_key" \in DOMAIN endpoint_config
    /\ api[OnetimeKey] # <<>>

\* ---------------------------------------------------------------- run never raises
UnknownMode(cfg) == Get(cfg, "execution_mode", "onetime") \notin Handlers

\* C12: DataPipeline.run always returns a result.  When the set-up fails the
\* result has status 'failed' and no endpoint was executed, no call issued
\* and no table touched.  An endpoint whose execution mode has no handler
\* gets a result with status 'failed' and an error, without any fetch or
\* sink call, and the loop goes on: a completed run has one result per
\* endpoint of the list.
C12_RunNeverRaises ==
    /\ ppc = "done" =>
         /\ summary["status"] \in {"completed", "failed"}
         /\ summary["status"] = "failed" =>
              /\ "error" \in DOMAIN summary
              /\ executed = <<>> /\ results = <<>>
              /\ calls = <<>> /\ sink = at_entry
    /\ (ppc = "loop" /\ DOMAIN endpoint_config # {} /\ UnknownMode(endpoint_config)) =>
         /\ calls = <<>>
         /\ sink = at_entry
         /\ pc \in {"return", "idle"}
         /\ pc = "return" =>
              /\ result["status"] = "failed"
              /\ "error" \in DOMAIN result
              /\ result["endpoint"] = endpoint_config["name"]
    /\ Completed =>
         /\ Len(results) = Len(endpoints_config)
         /\ \A k \in DOMAIN results :
              UnknownMode(endpoints_config[k]) => results[k]["status"] = "failed"

C12_Witness ==
    /\ Completed
    /\ Len(results) = 2
    /\ UnknownMode(endpoints_config[1])
    /\ results[1]["status"] = "failed"
    /\ results[2]["status"] = "success"
    /\ Loads(calls) # <<>>

C12_WitnessSetup ==
    /\ ppc = "done" /\ summary["status"] = "failed"
    /\ Len(endpoints_config) = 2

\* ---------------------------------------------------------------- load_data
LoadDataDone == fn = "load_data" /\ ret # NoReturn

\* C13: every record load_data hands to the load job carries exactly one
\* field whose name starts with '_sys_', the ingestion timestamp of this
\* load; a '_sys_' field of the input record is gone (a stale timestamp is
\* replaced), and the other fields are there with their values.  A load
\* that succeeds leaves these records at the end of the table.
C13_OneSystemField ==
    (LoadDataDone /\ ret["job"] # <<>>) =>
      /\ Len(ret["job"]) = Len(args["data"])
      /\ \A j \in DOMAIN ret["job"] :
           LET written == ret["job"][j]
               record == args["data"][j]
           IN  /\ (DOMAIN written) \cap SysFields = {"_sys_ingested_at"}
               /\ written["_sys_ingested_at"] = ret["now"]
               /\ (DOMAIN written) \ SysFields = (DOMAIN record) \ SysFields
               /\ \A f \in (DOMAIN record) \ SysFields : written[f] = record[f]
      /\ ~ret["raised"] =>
           /\ ret["value"] = Len(args["data"])
           /\ IsSuffix(ret["job"], sink[args["table_id"]])

C13_Witness ==
    /\ LoadDataDone /\ ~ret["raised"]
    /\ Len(args["data"]) = 2
    /\ "_sys_ingestion_date" \in DOMAIN args["data"][1]
    /\ "sys_note" \in DOMAIN args["data"][1]
    /\ "_sys_ingested_at" \in DOMAIN args["data"][2]
    /\ Len(sink["prices"]) = 3

\* The load_data calls of a replace-by-filter write whose delete step failed
\* with an error other than "Not found".
DeleteErrors(cs) ==
    {k \in DOMAIN cs : IsLoad(cs[k]) /\ cs[k]["delete"] = "error"}

\* C14 as stated: a delete step that fails with anything but 'table not
\* found' makes load_data raise, so that the call fails, it is the last call
\* of the endpoint, the buffer is not in the table, and the batch result has
\* status 'failed'.
C14_Original ==
    /\ \A k \in DeleteErrors(calls) :
         /\ ~calls[k]["ok"]
         /\ k = Len(calls)
         /\ Committed(<<calls[k]>>) = <<>>
    /\ (Returned /\ DeleteErrors(calls) # {}) => result["status"] = "failed"

\* ---------------------------------------------------------------- date range errors
DateIterationOf(cfg) ==
    Get(Get(cfg, "batch_config", EmptyDict), "date_iteration", EmptyDict)

\* C15 as stated: with date iteration enabled and a start_date or end_date
\* that does not parse, execute (on a non-empty value list) ends with a
\* result of status 'failed' that carries an error.
C15_Original ==
    (Returned /\ batch_values # <<>>
        /\ Get(DateIterationOf(endpoint_config), "enabled", FALSE)
        /\ (DateIterationOf(endpoint_config)["start_date"] \in Unparsable
            \/ DateIterationOf(endpoint_config)["end_date"] \in Unparsable))
    => /\ result["status"] = "failed"
       /\ "error" \in DOMAIN result

\* ---------------------------------------------------------------- _get_date_range
DateRangeDone == fn = "_get_date_range" /\ ret # NoReturn

ValidDate(s) == DayIndex(s) > 0

\* C16: for two valid dates with start_date <= end_date, _get_date_range
\* returns one 'YYYY-MM-DD' string per calendar day of the closed interval:
\* the first is the start day, the last is the end day, each next one is the
\* day after, so the list ascends without duplicates and has (days between
\* + 1) entries; for start_date > end_date it returns the empty list.
C16_DateRange ==
    (DateRangeDone
        /\ DOMAIN args["date_iteration"] = {"enabled", "start_date", "end_date"}
        /\ ValidDate(args["date_iteration"]["start_date"])
        /\ ValidDate(args["date_iteration"]["end_date"]))
    => LET first == DayIndex(args["date_iteration"]["start_date"])
           last == DayIndex(args["date_iteration"]["end_date"])
           dates == ret["value"]
       IN  IF first > last THEN dates = <<>>
           ELSE /\ Len(dates) = last - first + 1
                /\ \A n \in DOMAIN dates : dates[n] \in Range(DayNames)
                /\ DayIndex(dates[1]) = first
                /\ DayIndex(dates[Len(dates)]) = last
                /\ \A n \in 1..(Len(dates) - 1) :
                     DayIndex(dates[n + 1]) = DayIndex(dates[n]) + 1

C16_Witness ==
    /\ DateRangeDone
    /\ args["date_iteration"] = [enabled |-> TRUE, start_date |-> Unpadded[1],
                                 end_date |-> DayNames[3]]
    /\ ret["value"] = <<DayNames[1], DayNames[2], DayNames[3]>>

C16_WitnessEmpty ==
    /\ DateRangeDone
    /\ args["date_iteration"] = [enabled |-> TRUE, start_date |-> DayNames[3],
                                 end_date |-> DayNames[2]]
    /\ ret["value"] = <<>>

\* ---------------------------------------------------------------- _inject_columns
InjectDone == fn = "_inject_columns" /\ ret # NoReturn

\* A template with each '{key}' token of a context key whose value is not
\* null replaced by that value, and every other piece as written.
Substituted(col_template, context) ==
    Concat([j \in DOMAIN col_template |->
        IF \E key \in DOMAIN context :
              context[key] # None /\ col_template[j] = Token(key)
        THEN context[CHOOSE key \in DOMAIN context :
              context[key] # None /\ col_template[j] = Token(key)]
        ELSE col_template[j]])

\* C17: on every record, every template column holds its template with the
\* tokens of the non-null context keys replaced by their values and the
\* tokens of null-valued (and unknown) keys left verbatim; the record has no
\* other new field and its other fields keep their values.  With no template
\* the records are returned unchanged.
C17_InjectColumns ==
    InjectDone =>
      LET data == args["data"]
          inject_columns == args["inject_columns"]
          context == args["context"]
          out == ret["value"]
      IN  /\ Len(out) = Len(data)
          /\ \A j \in DOMAIN out :
               /\ DOMAIN out[j] = (DOMAIN data[j]) \cup (DOMAIN inject_columns)
               /\ \A c \in DOMAIN inject_columns :
                    out[j][c] = Substituted(inject_columns[c], context)
               /\ \A f \in (DOMAIN data[j]) \ (DOMAIN inject_columns) :
                    out[j][f] = data[j][f]
          /\ DOMAIN inject_columns = {} => out = data

C17_Witness ==
    /\ InjectDone
    /\ args["context"] = [stock_code |-> ValueNames[1], date |-> DayNames[1]]
    /\ DOMAIN args["inject_columns"] = {"src", "date"}
    /\ Len(args["data"]) = 2
    /\ args["data"][2]["src"] = "old"
    /\ ret["value"][2]["src"] = ValueNames[1] \o ":" \o DayNames[1]
    /\ ret["value"][2]["date"] = DayNames[1]
    /\ ret["value"][2]["code"] = "BBRI"

C17_WitnessNull ==
    /\ InjectDone
    /\ args["context"] = [stock_code |-> ValueNames[1], date |-> None]
    /\ DOMAIN args["inject_columns"] = {"src", "date"}
    /\ ret["value"][1]["src"] = ValueNames[1] \o ":{date}"

\* ------------------------------------------------------- _build_partition_fields
PartitionFieldsDone == fn = "_build_partition_fields" /\ ret # NoReturn

\* C18: the filter holds a field f exactly when f is in the partition key
\* list and the context has a non-null value for f, and then with the value
\* context[f]; an empty key list gives the empty filter.
C18_PartitionFields ==
    PartitionFieldsDone =>
      LET partition_key == args["partition_key"]
          context == args["context"]
          filter == ret["value"]
      IN  /\ \A f \in {"date", "region", "exchange", "stock_code"} :
               f \in DOMAIN filter
                 <=> /\ \E j \in DOMAIN partition_key : partition_key[j] = f
                     /\ f \in DOMAIN context
                     /\ context[f] # None
          /\ DOMAIN filter \subseteq {"date", "region", "exchange", "stock_code"}
          /\ \A f \in DOMAIN filter : filter[f] = context[f]
          /\ partition_key = <<>> => filter = EmptyDict

C18_Witness ==
    /\ PartitionFieldsDone
    /\ args["partition_key"] = <<"date", "region">>
    /\ args["context"] = [date |-> DayNames[1], region |-> None]
    /\ ret["value"] = [date |-> DayNames[1]]

C18_WitnessAbsent ==
    /\ PartitionFieldsDone
    /\ args["partition_key"] = <<"exchange">>
    /\ args["context"] = [date |-> DayNames[1], region |-> "ID"]
    /\ ret["value"] = EmptyDict

\* ------------------------------------------- one write without dates and filter
NoDatesNoKey ==
    /\ ~Get(DateIterationOf(endpoint_config), "enabled", FALSE)
    /\ Get(endpoint_config, "partition_key", <<>>) = <<>>

SomeValueAnswered == \E v \in Range(batch_values) : api[<<None, v>>] # <<>>

\* The records the source answers for the values, in value order, each with
\* the configured columns injected for its value.
ValuesInOrder[n \in 0..MaxValues] ==
    IF n = 0 THEN <<>>
    ELSE ValuesInOrder[n - 1] \o
         (IF n > Len(batch_values) THEN <<>>
          ELSE LET fetched == api[<<None, batch_values[n]>>]
                   inject_columns == Get(endpoint_config, "inject_columns", EmptyDict)
                   context == [stock_code |-> batch_values[n], date |-> None]
               IN  [j \in DOMAIN fetched |->
                      [c \in DOMAIN inject_columns |->
                          Substituted(inject_columns[c], context)] @@ fetched[j]])

\* C19: with date iteration disabled and an empty partition_key, a run in
\* which some value's fetch returns records and no call fails issues exactly
\* one load_data call, with WRITE_APPEND and an empty filter, after the
\* fetches of all values, and its buffer is the concatenation of the values'
\* fetched and column-injected records in value order.
C19_OneAppend ==
    (Returned /\ result["status"] = "success" /\ NoDatesNoKey /\ SomeValueAnswered)
    => /\ Len(Loads(calls)) = 1
       /\ Len(Fetches(calls)) = Len(batch_values)
       /\ IsLoad(calls[Len(calls)])
       /\ \A n \in DOMAIN batch_values : calls[n]["value"] = batch_values[n]
       /\ LET load == calls[Len(calls)]
          IN  /\ load["write_disposition"] = "WRITE_APPEND"
              /\ load["partition_fields"] = EmptyDict
              /\ load["data"] = ValuesInOrder[MaxValues]
              /\ load["data"] = DateBuffer(endpoint_config, None)

C19_Witness ==
    /\ Returned /\ result["status"] = "success" /\ NoDatesNoKey
    /\ Len(batch_values) = 2
    /\ \A v \in Range(batch_values) : api[<<None, v>>] # <<>>
    /\ Get(endpoint_config, "inject_columns", EmptyDict) # EmptyDict
    /\ Len(Loads(calls)) = 1
    /\ Len(calls[Len(calls)]["data"]) = 3
    /\ calls[Len(calls)]["data"][1]["code"] = batch_values[1]
    /\ calls[Len(calls)]["data"][3]["code"] = batch_values[2]

C19_WitnessSilent ==
    /\ Returned /\ result["status"] = "success" /\ NoDatesNoKey
    /\ Len(batch_values) = 2
    /\ api[<<None, batch_values[1]>>] # <<>>
    /\ api[<<None, batch_values[2]>>] = <<>>
    /\ Len(Loads(calls)) = 1
    /\ Len(calls[Len(calls)]["data"]) = 1

\* ----------------------------------------------------------- _normalize_response
NormalizeDone == fn = "_normalize_response" /\ ret # NoReturn

HasData(data) == data["type"] = "dict" /\ "data" \in DOMAIN data["fields"]

\* C20: the result is a list for every response: a bare object gives the
\* one-element list that holds it, an array is returned as it is, an object
\* with a 'data' array gives that array, and an object with a 'data' object
\* gives the one-element list that holds that object.
C20_Normalized ==
    NormalizeDone =>
      LET data == args["data"]
          out == ret["value"]
      IN  /\ out["type"] = "list"
          /\ (data["type"] = "dict" /\ ~HasData(data)) => out["items"] = <<data>>
          /\ data["type"] = "list" => out = data
          /\ (HasData(data) /\ data["fields"]["data"]["type"] = "list")
                => out = data["fields"]["data"]
          /\ (HasData(data) /\ data["fields"]["data"]["type"] = "dict")
                => out["items"] = <<data["fields"]["data"]>>

C20_Witness ==
    /\ NormalizeDone
    /\ HasData(args["data"])
    /\ args["data"]["fields"]["data"] = JObject([id |-> JNumber(1), name |-> JString("test")])
    /\ ret["value"] = JArray(<<JObject([id |-> JNumber(1), name |-> JString("test")])>>)

C20_WitnessDataArray ==
    /\ NormalizeDone
    /\ HasData(args["data"])
    /\ args["data"]["fields"]["data"]["type"] = "list"
    /\ Len(args["data"]["fields"]["data"]["items"]) = 2
    /\ ret["value"] = args["data"]["fields"]["data"]

C20_WitnessScalar ==
    /\ NormalizeDone
    /\ args["data"] = JNumber(7)
    /\ ret["value"] = JArray(<<JObject([raw_data |-> JString("7")])>>)

\* ------------------------------------------------------------ order of the calls
CleanRun == Returned /\ result["status"] = "success" /\ batch_values # <<>>

\* The place of a date in the date list (its dates are distinct).
DatePos(d) == CHOOSE k \in DOMAIN date_list : date_list[k] = d

FetchesBefore(p) == Cardinality({k \in 1..(p - 1) : IsFetch(calls[k])})

\* C21: in a run without failure every (date, value) pair is fetched exactly
\* once, dates in list order and values in list order within a date; the
\* write of a date comes after all fetches of that date and before the first
\* fetch of the next date, so never between two fetches of one date.
C21_DateMajor ==
    CleanRun =>
      LET n == Len(batch_values)
          fetches == Fetches(calls)
      IN  /\ Len(fetches) = Len(date_list) * n
          /\ \A k \in DOMAIN fetches :
               /\ fetches[k]["date"] = date_list[((k - 1) \div n) + 1]
               /\ fetches[k]["value"] = batch_values[((k - 1) % n) + 1]
          /\ \A p \in DOMAIN calls :
               IsLoad(calls[p]) =>
                 /\ calls[p]["date"] \in Range(date_list)
                 /\ FetchesBefore(p) = n * DatePos(calls[p]["date"])
          /\ \A p, q \in DOMAIN calls :
               (p < q /\ IsLoad(calls[p]) /\ IsLoad(calls[q]))
                 => calls[p]["date"] # calls[q]["date"]

C21_Witness ==
    /\ CleanRun
    /\ Len(batch_values) = 2 /\ Len(date_list) = 2
    /\ Len(calls) = 6
    /\ IsFetch(calls[1]) /\ IsFetch(calls[2]) /\ IsLoad(calls[3])
    /\ IsFetch(calls[4]) /\ IsFetch(calls[5]) /\ IsLoad(calls[6])
    /\ calls[3]["date"] = date_list[1] /\ calls[6]["date"] = date_list[2]

\* ------------------------------------------------------ mode and filter of a write
\* C22: every write of the batch engine (its buffer is non-empty) is a
\* WRITE_TRUNCATE_PARTITION with the filter {date: current date} exactly when
\* 'date' is in partition_key and the current date is not null, and otherwise
\* a WRITE_APPEND with an empty filter; the iteration key is never in the
\* filter.
C22_ModeAndFilter ==
    \A p \in DOMAIN calls :
      IsLoad(calls[p]) =>
        LET load == calls[p]
            partition_key == Get(endpoint_config, "partition_key", <<>>)
            iterate_by == Get(Get(endpoint_config, "batch_config", EmptyDict),
                              "iterate_by", None)
            by_date == "date" \in Range(partition_key) /\ load["date"] # None
        IN  /\ load["data"] # <<>>
            /\ by_date <=> load["write_disposition"] = "WRITE_TRUNCATE_PARTITION"
            /\ by_date => load["partition_fields"] = [date |-> load["date"]]
            /\ ~by_date => /\ load["write_disposition"] = "WRITE_APPEND"
                           /\ load["partition_fields"] = EmptyDict
            /\ iterate_by \notin DOMAIN load["partition_fields"]

C22_Witness ==
    /\ Returned /\ result["status"] = "success"
    /\ Get(endpoint_config, "partition_key", <<>>) = <<"stock_code", "date">>
    /\ Len(Loads(calls)) = 2
    /\ calls[Len(calls)]["write_disposition"] = "WRITE_TRUNCATE_PARTITION"
    /\ calls[Len(calls)]["partition_fields"] = [date |-> date_list[2]]

C22_WitnessKeyWithoutDate ==
    /\ Returned /\ result["status"] = "success"
    /\ Get(endpoint_config, "partition_key", <<>>) = <<"stock_code">>
    /\ date_list # <<None>>
    /\ Len(Loads(calls)) = 1
    /\ calls[Len(calls)]["write_disposition"] = "WRITE_APPEND"

C22_WitnessNoDates ==
    /\ Returned /\ result["status"] = "success"
    /\ Get(endpoint_config, "partition_key", <<>>) = <<"date">>
    /\ date_list = <<None>>
    /\ Len(Loads(calls)) = 1
    /\ calls[Len(calls)]["write_disposition"] = "WRITE_APPEND"

\* ------------------------------------------------------------ scope of the delete
RowsOfDate(rows, d) ==
    SelectSeq(rows, LAMBDA r : "date" \in DOMAIN r /\ r["date"] = d)

\* The replace-by-filter write that has just returned: the last call, a
\* load_data call that succeeded with a filter.
JustReplaced ==
    /\ calls # <<>>
    /\ IsLoad(calls[Len(calls)])
    /\ calls[Len(calls)]["ok"]
    /\ calls[Len(calls)]["write_disposition"] = "WRITE_TRUNCATE_PARTITION"

\* The table holds for the date of the write just returned exactly the rows
\* of its buffer, and for every other day the rows an earlier write of this
\* run put there for it or, without such a write, the rows it held on entry.
WholeDateReplaced ==
    LET load == calls[Len(calls)]
        written(d) == {k \in DOMAIN calls : IsLoad(calls[k]) /\ calls[k]["date"] = d}
    IN  /\ Strip(RowsOfDate(sink[Table], load["date"])) = load["data"]
        /\ \A n \in DOMAIN DayNames :
             (DayNames[n] # load["date"] /\ written(DayNames[n]) = {})
               => RowsOfDate(sink[Table], DayNames[n])
                    = RowsOfDate(at_entry[Table], DayNames[n])
        /\ \A k \in DOMAIN calls :
             (IsLoad(calls[k]) /\ calls[k]["date"] # load["date"])
               => Strip(RowsOfDate(sink[Table], calls[k]["date"])) = calls[k]["data"]

\* C23 as stated: after a successful replace-by-filter write for date d (of
\* rows that carry their date) the table holds for d exactly the rows of the
\* buffer, the earlier rows of d being deleted whatever value they were of,
\* and the rows of every other date are as they were.
C23_Original ==
    (JustReplaced /\ RowsCarryDate(calls)) => WholeDateReplaced

\* The same for a run in which no DELETE query ended in an error.
C23_ScopeWhenDeleted ==
    (JustReplaced /\ RowsCarryDate(calls) /\ DeleteErrors(calls) = {})
    => WholeDateReplaced

C23_ScopeSeen ==
    /\ JustReplaced /\ RowsCarryDate(calls) /\ DeleteErrors(calls) = {}
    /\ at_entry[Table] # <<>>
    /\ RowsOfDate(at_entry[Table], calls[Len(calls)]["date"]) # <<>>
    /\ Len(RowsOfDate(sink[Table], calls[Len(calls)]["date"])) = 1
    /\ sink[Table][1]["code"] # "OLD"

\* ------------------------------------------------------------ the per-date buffer
\* What the fetches made for one date returned, in value order.
FetchedFor[d \in Range(date_list)] ==
    LET part[n \in 0..Len(batch_values)] ==
            IF n = 0 THEN <<>>
            ELSE part[n - 1] \o api[<<d, batch_values[n]>>]
    IN  part[Len(batch_values)]

\* C24: the buffer of every load_data call holds exactly the records the
\* fetches of its date returned, in value order and each once; it holds no
\* record of the fetches of an earlier date.
C24_BufferPerDate ==
    \A p \in DOMAIN calls :
      IsLoad(calls[p]) =>
        /\ calls[p]["date"] \in Range(date_list)
        /\ calls[p]["data"] = FetchedFor[calls[p]["date"]]
        /\ Len(calls[p]["data"]) =
             Cardinality({<<v, j>> \in Range(batch_values) \X (1..2) :
                            j \in DOMAIN api[<<calls[p]["date"], v>>]})

C24_Witness ==
    /\ CleanRun
    /\ Len(batch_values) = 2 /\ Len(date_list) = 2
    /\ Len(calls) = 6 /\ IsLoad(calls[3]) /\ IsLoad(calls[6])
    /\ Len(calls[3]["data"]) = 3
    /\ Len(calls[6]["data"]) = 3
    /\ \A j \in 1..3 : Get(calls[3]["data"][j], "date", None) = date_list[1]
    /\ \A j \in 1..3 : Get(calls[6]["data"][j], "date", None) = date_list[2]

\* ------------------------------------------------------------ the reported counts
RECURSIVE RowsReturned(_)
RowsReturned(cs) ==
    IF cs = <<>> THEN 0
    ELSE (IF IsLoad(Head(cs)) /\ Head(cs)["ok"] THEN Len(Head(cs)["data"]) ELSE 0)
         + RowsReturned(Tail(cs))

\* The number of records the source answers over all (date, value) pairs of
\* the run.
RecordsFetched ==
    LET pairs == Range(date_list) \X Range(batch_values)
    IN  Cardinality({<<p, j>> \in pairs \X (1..2) : j \in DOMAIN api[p]})

\* C25: a successful return on a non-empty value list reports
\* batches_processed = the number of values, whatever the number of dates
\* (none included), and total_records_loaded = the sum of the row counts the
\* load_data calls of the run returned = the number of records fetched for
\* the dates whose buffer was not empty.
C25_Counts ==
    CleanRun =>
      /\ result["batches_processed"] = Len(batch_values)
      /\ result["total_records_loaded"] = RowsReturned(calls)
      /\ result["total_records_loaded"] = RecordsFetched

C25_Witness ==
    /\ CleanRun
    /\ Len(batch_values) = 2 /\ Len(date_list) = 2
    /\ batches_processed = 4
    /\ result["batches_processed"] = 2
    /\ Len(Loads(calls)) = 1
    /\ result["total_records_loaded"] = 3

C25_WitnessNoDates ==
    /\ CleanRun
    /\ Len(batch_values) = 2 /\ date_list = <<>>
    /\ result["batches_processed"] = 2
    /\ result["total_records_loaded"] = 0

\* ------------------------------------------------------------ the slots of a fetch
\* One fetch call against the configuration: the value is in the path
\* variable named iterate_by when the path has its token and in the query
\* parameter of that name otherwise, and in no other slot; every other slot
\* is as configured, with the date token of a parameter replaced by the
\* date of the call when there is one.
SlotsOf(c, cfg) ==
    LET iterate_by == cfg["batch_config"]["iterate_by"]
        in_path == Token(iterate_by) \in Range(cfg["path"])
        params == cfg["params"]
        path_variables == cfg["path_variables"]
        dated(k) == Concat([j \in DOMAIN params[k] |->
                        IF c["date"] # None /\ params[k][j] = "{date}"
                        THEN c["date"] ELSE params[k][j]])
    IN  /\ in_path =>
             /\ c["path_variables"][iterate_by] = c["value"]
             /\ DOMAIN c["path_variables"] = DOMAIN path_variables \cup {iterate_by}
             /\ DOMAIN c["params"] = DOMAIN params
        /\ ~in_path =>
             /\ c["params"][iterate_by] = c["value"]
             /\ DOMAIN c["params"] = DOMAIN params \cup {iterate_by}
             /\ DOMAIN c["path_variables"] = DOMAIN path_variables
        /\ \A k \in DOMAIN path_variables :
             k # iterate_by => c["path_variables"][k] = path_variables[k]
        /\ \A k \in DOMAIN params :
             (k # iterate_by \/ in_path) => c["params"][k] = dated(k)

FetchSlots == \A p \in DOMAIN calls : IsFetch(calls[p]) => SlotsOf(calls[p], endpoint_config)

\* C26: in every fetch of the batch loop the iteration value is in exactly
\* one slot (the path variable when the path has the token, the query
\* parameter otherwise) and the date token of the parameters is replaced by
\* the current date when one is set; no step of execute changes the params
\* and path_variables of the configuration.
C26_FetchSlots ==
    /\ []FetchSlots
    /\ [][/\ endpoint_config'["params"] = endpoint_config["params"]
          /\ endpoint_config'["path_variables"] = endpoint_config["path_variables"]]_vars

C26_Witness ==
    /\ CleanRun
    /\ endpoint_config \in QueryConfigs
    /\ Len(date_list) = 2
    /\ calls[1]["params"] = [stock_code |-> batch_values[1], from |-> date_list[1],
                             to |-> "d-" \o date_list[1], limit |-> "100"]
    /\ calls[1]["path_variables"] = [market |-> "idx"]

C26_WitnessPath ==
    /\ CleanRun
    /\ endpoint_config \in BatchConfigs
    /\ date_list = <<None>>
    /\ Len(batch_values) = 2
    /\ calls[2]["path_variables"] = [stock_code |-> batch_values[2]]
    /\ calls[2]["params"] = [from |-> "{date}", limit |-> "100"]

\* ------------------------------------------------------------ the iteration values
BatchConfigOf(cfg) == Get(cfg, "batch_config", EmptyDict)
IsQuery(c) == c["op"] = "query"
Queries(cs) == SelectSeq(cs, IsQuery)
Started == pc # "batch"

\* C27: with a non-empty static 'values' list the iteration values are that
\* list, element by element, and no lookup is issued, also when source_table
\* and source_column are configured.
C27_StaticFirst ==
    (Started /\ HasStaticValues(BatchConfigOf(endpoint_config)))
    => /\ batch_values = BatchConfigOf(endpoint_config)["values"]
       /\ Queries(calls) = <<>>

C27_Witness ==
    /\ Returned /\ result["status"] = "success"
    /\ HasStaticValues(BatchConfigOf(endpoint_config))
    /\ HasSource(BatchConfigOf(endpoint_config))
    /\ batch_values = StaticValues(MaxValues)
    /\ Len(Fetches(calls)) >= 2
    /\ Len(Loads(calls)) >= 1

NoFilter(cfg) == ~Truthy(Get(BatchConfigOf(cfg), "source_filter", ""))

\* The distinct values of the source column that are not null, ascending.
DistinctNotNull(rows, column) ==
    SelectSeq(SortOrder,
              LAMBDA x : x # None
                         /\ \E j \in DOMAIN rows : Get(rows[j], column, None) = x)

\* C28 as stated: without a source_filter the lookup of _get_batch_values
\* filters on '<source_column> IS NOT NULL', the configured column name in
\* the place of the token, and its answer is the distinct values in
\* ascending order.
C28_Original ==
    \A k \in DOMAIN calls :
      (Started /\ IsQuery(calls[k]) /\ NoFilter(endpoint_config)) =>
        LET batch_config == BatchConfigOf(endpoint_config)
        IN  /\ calls[k]["where"] =
                 "WHERE " \o batch_config["source_column"] \o " IS NOT NULL"
            /\ calls[k]["ok"] =>
                 batch_values = DistinctNotNull(at_entry[batch_config["source_table"]],
                                                batch_config["source_column"])

\* The copy of src/cloud_run_function/main.py does what C28 states.
C28_OtherCopy == (tree = "cloud_run_function" /\ Started) => C28_Original

C28_OtherCopySeen ==
    /\ tree = "cloud_run_function" /\ Returned
    /\ NoFilter(endpoint_config)
    /\ Queries(calls) # <<>> /\ calls[1]["ok"]
    /\ batch_values = <<"BBCA", "BBRI">>

LookupFailed == Started /\ calls # <<>> /\ IsQuery(calls[1]) /\ ~calls[1]["ok"]

\* C29: when the query of the lookup raises, _get_batch_values returns [] and
\* execute returns status 'success' with batches_processed = 0 and
\* total_records_loaded = 0; it issues no fetch and no sink write, and the
\* tables are as they were.
C29_LookupFailure ==
    LookupFailed =>
      /\ batch_values = <<>>
      /\ Returned
      /\ result["status"] = "success"
      /\ result["batches_processed"] = 0
      /\ result["total_records_loaded"] = 0
      /\ "error" \notin DOMAIN result
      /\ Len(calls) = 1
      /\ sink = at_entry

C29_Witness ==
    /\ LookupFailed
    /\ ValidWhere(calls[1])
    /\ Returned
    /\ at_entry["stocks"] = SourceRows

\* ------------------------------------------------------------ the two copies
\* A run in which the services behave: no fetch and no write fails, no
\* DELETE query errs, and a lookup fails only when its text is no valid SQL.
Behaved(cs) ==
    \A k \in DOMAIN cs :
      /\ ~IsQuery(cs[k]) => cs[k]["ok"]
      /\ IsLoad(cs[k]) => cs[k]["delete"] \in {None, "ok"}
      /\ IsQuery(cs[k]) => (cs[k]["ok"] <=> ValidWhere(cs[k]))

BothCopiesRan ==
    /\ run = 2 /\ tree = "cloud_run_function" /\ Returned
    /\ Behaved(history[1]["calls"]) /\ Behaved(calls)

\* C30 as stated: on the same configuration, fetch behaviour and initial
\* tables, the copy of src/src and the copy of src/cloud_run_function issue
\* the same calls with the same arguments, in the same order, and return the
\* same result.
C30_Original ==
    BothCopiesRan
    => /\ calls = history[1]["calls"]
       /\ result = history[1]["result"]
       /\ Strip(sink["prices"]) = Strip(history[1]["sink"]["prices"])

\* The copies agree on every configuration that does not reach the default
\* WHERE clause of the lookup.
C30_EqualElsewhere ==
    (BothCopiesRan
        /\ ~(UsesSource(BatchConfigOf(endpoint_config)) /\ NoFilter(endpoint_config)))
    => /\ calls = history[1]["calls"]
       /\ result = history[1]["result"]
       /\ Strip(sink["prices"]) = Strip(history[1]["sink"]["prices"])

C30_EqualSeen ==
    /\ BothCopiesRan
    /\ UsesSource(BatchConfigOf(endpoint_config))
    /\ ~NoFilter(endpoint_config)
    /\ Len(Loads(calls)) >= 1
    /\ calls = history[1]["calls"]

====
